---- MODULE Spec2Model ----
(***************************************************************************)
(* The API gateway of node_api: an inbound request goes through the        *)
(* validateApiKey middleware, then through one of the seven controllers,   *)
(* which validates the body, has the service build the payload, sends it   *)
(* to the Go data engine with requestToGo and turns the reply (or the      *)
(* failure) into the response.                                             *)
(*                                                                         *)
(* The repository holds several versions of the controller and of the      *)
(* service side by side; the deployment variables ctrl and svc say which   *)
(* one a run uses.                                                         *)
(***************************************************************************)
EXTENDS Integers, Sequences, FiniteSets, TLC

VARIABLES
    API_KEYS,     \* process.env.API_KEYS: a sequence of characters, or NoEnv
    GO_API_URL,   \* the base URL of the downstream engine
    ctrl,         \* the controller version in use
    svc,          \* the service version in use
    pc,           \* where the request is: idle, parser, middleware, controller,
                  \* awaiting, done
    req,          \* the inbound request: route, x-api-key header, body (or malformed)
    res,          \* the response sent to the caller
    sent,         \* the call made to the downstream engine: endpoint and payload
    calls,        \* number of downstream calls made for the request
    validated,    \* TRUE once the controller has looked at the body's fields
    reply,        \* what the downstream engine answered
    escaped,      \* TRUE when an exception left the handler uncaught
    last,         \* history: the previous answered /get request, the engine's
                  \* answer to it and the response it got
    session,      \* req.session.adminAuthenticated of the browser session
    frame,        \* what an admin handler or a service function awaits: the
                  \* stage it resumes at and the error it has caught
    log,          \* history: the calls made to the engine for the request, each
                  \* with the engine's answer
    signedIn      \* history: a login with the configured password was accepted
                  \* and no logout has run since

vars == <<API_KEYS, GO_API_URL, ctrl, svc, pc, req, res, sent, calls, validated, reply,
          escaped, last, session, frame, log, signedIn>>

-----------------------------------------------------------------------------
(* Bounds of the model *)

\* the longest data array of a batch-insert request
MaxRows == 2

-----------------------------------------------------------------------------
(* JavaScript values.  One record shape for all of them: t is the type,    *)
(* n the number (or 0/1 for a boolean), s the string, o the entries of an  *)
(* object in insertion order, a the elements of an array.                  *)

Undef == [t |-> "undefined", n |-> 0, s |-> "", o |-> <<>>, a |-> <<>>]

Null == [t |-> "null", n |-> 0, s |-> "", o |-> <<>>, a |-> <<>>]

Num(n) == [t |-> "number", n |-> n, s |-> "", o |-> <<>>, a |-> <<>>]

Bool(b) == [t |-> "boolean", n |-> IF b THEN 1 ELSE 0, s |-> "", o |-> <<>>, a |-> <<>>]

Str(s) == [t |-> "string", n |-> 0, s |-> s, o |-> <<>>, a |-> <<>>]

Obj(entries) == [t |-> "object", n |-> 0, s |-> "", o |-> entries, a |-> <<>>]

Arr(elems) == [t |-> "array", n |-> 0, s |-> "", o |-> <<>>, a |-> elems]

\* the number NaN, which JSON.stringify writes as null
NaN == [t |-> "NaN", n |-> 0, s |-> "", o |-> <<>>, a |-> <<>>]

\* one entry of an object
KV(k, v) == [k |-> k, v |-> v]

\* !v is FALSE
Truthy(v) ==
    CASE v.t = "undefined" -> FALSE
      [] v.t = "null" -> FALSE
      [] v.t = "number" -> v.n # 0
      [] v.t = "boolean" -> v.n = 1
      [] v.t = "string" -> v.s # ""
      [] v.t = "NaN" -> FALSE
      [] OTHER -> TRUE

\* v == null
Nullish(v) == v.t \in {"undefined", "null"}

\* Array.isArray(v)
IsArray(v) == v.t = "array"

\* typeof v === "object"
TypeofObject(v) == v.t \in {"object", "array", "null"}

\* a || b
Or(a, b) == IF Truthy(a) THEN a ELSE b

\* a ?? b
Coalesce(a, b) == IF Nullish(a) THEN b ELSE a

\* k in obj
HasKey(obj, k) == \E i \in 1..Len(obj.o) : obj.o[i].k = k

\* obj[k], also on a value that has no properties
Get(obj, k) ==
    IF HasKey(obj, k)
    THEN obj.o[CHOOSE i \in 1..Len(obj.o) : obj.o[i].k = k].v
    ELSE Undef

\* { ...obj, k: v }: an existing key keeps its place, a new key goes last
SetKey(entries, k, v) ==
    IF \E i \in 1..Len(entries) : entries[i].k = k
    THEN [i \in 1..Len(entries) |-> IF entries[i].k = k THEN KV(k, v) ELSE entries[i]]
    ELSE Append(entries, KV(k, v))

\* the entries whose value is defined: JSON carries no undefined
Present(entries) == SelectSeq(entries, LAMBDA e : e.v.t # "undefined")

Digit == <<"0", "1", "2", "3", "4", "5", "6", "7", "8", "9">>

RECURSIVE NumStr(_)
\* String(n) of a natural number
NumStr(n) == IF n < 10 THEN Digit[n + 1] ELSE NumStr(n \div 10) \o Digit[(n % 10) + 1]

RECURSIVE JoinStr(_, _)
\* strs.join(sep)
JoinStr(strs, sep) ==
    IF Len(strs) = 0 THEN ""
    ELSE IF Len(strs) = 1 THEN strs[1]
    ELSE strs[1] \o sep \o JoinStr(Tail(strs), sep)

RECURSIVE ToStr(_)
\* String(v), as new Error(v) computes its message
ToStr(v) ==
    CASE v.t = "undefined" -> "undefined"
      [] v.t = "null" -> "null"
      [] v.t = "number" -> NumStr(v.n)
      [] v.t = "NaN" -> "NaN"
      [] v.t = "boolean" -> IF v.n = 1 THEN "true" ELSE "false"
      [] v.t = "string" -> v.s
      [] v.t = "object" -> "[object Object]"
      [] v.t = "array" ->
            JoinStr([i \in 1..Len(v.a) |->
                        IF Nullish(v.a[i]) THEN "" ELSE ToStr(v.a[i])], ",")

RECURSIVE ToJSON(_)
\* JSON.stringify(v)
ToJSON(v) ==
    CASE v.t = "undefined" -> "null"
      [] v.t = "null" -> "null"
      [] v.t = "number" -> NumStr(v.n)
      [] v.t = "NaN" -> "null"
      [] v.t = "boolean" -> IF v.n = 1 THEN "true" ELSE "false"
      [] v.t = "string" -> "\"" \o v.s \o "\""
      [] v.t = "object" ->
            "{" \o JoinStr([i \in 1..Len(Present(v.o)) |->
                        "\"" \o Present(v.o)[i].k \o "\":" \o ToJSON(Present(v.o)[i].v)], ",") \o "}"
      [] v.t = "array" ->
            "[" \o JoinStr([i \in 1..Len(v.a) |-> ToJSON(v.a[i])], ",") \o "]"

-----------------------------------------------------------------------------
(* The API key middleware *)

NoEnv == [set |-> FALSE, chars |-> <<>>]

\* a variable of process.env that is set; its text is a sequence of characters
Env(chars) == [set |-> TRUE, chars |-> chars]

\* a request without the header
NoHeader == [present |-> FALSE, chars |-> <<>>]

Header(chars) == [present |-> TRUE, chars |-> chars]

RECURSIVE SplitFrom(_, _)
\* the pieces of chars between commas, cur being the piece under way
SplitFrom(chars, cur) ==
    IF Len(chars) = 0 THEN <<cur>>
    ELSE IF Head(chars) = "," THEN <<cur>> \o SplitFrom(Tail(chars), <<>>)
    ELSE SplitFrom(Tail(chars), Append(cur, Head(chars)))

\* text.split(",")
Split(chars) == SplitFrom(chars, <<>>)

\* validKeys without the split: the whole text is the one key
validKeysUnsplit(env) == IF env.set /\ Len(env.chars) > 0 THEN <<env.chars>> ELSE <<>>

\* process.env.API_KEYS ? process.env.API_KEYS.split(",") : []
validKeys(env) == IF env.set /\ Len(env.chars) > 0 THEN Split(env.chars) ELSE <<>>

\* validKeys.includes(key)
Includes(keys, key) == \E i \in 1..Len(keys) : keys[i] = key

\* res.status(status).json({ ...entries })
JsonResponse(status, entries) == [status |-> status, body |-> Obj(Present(entries))]

\* no response has been sent
NoResponse == [status |-> 0, body |-> Undef]

\* validateApiKey without the return before the 401: next() is called all the same
validateApiKeyNoReturn(env, key) ==
    [next |-> TRUE,
     res |-> IF ~key.present \/ Len(key.chars) = 0 \/ ~Includes(validKeys(env), key.chars)
             THEN JsonResponse(401, <<KV("success", Bool(FALSE)),
                                      KV("message", Str("Chave de API inválida ou ausente"))>>)
             ELSE NoResponse]

\* what the middleware does: the 401 response, or next()
validateApiKey(env, key) ==
    IF ~key.present \/ Len(key.chars) = 0 \/ ~Includes(validKeys(env), key.chars)
    THEN [next |-> FALSE,
          res |-> JsonResponse(401, <<KV("success", Bool(FALSE)),
                                      KV("message", Str("Chave de API inválida ou ausente"))>>)]
    ELSE [next |-> TRUE, res |-> NoResponse]


-----------------------------------------------------------------------------
(* The service: one function per operation builds the payload for the Go   *)
(* engine or throws.  svc is the version of the service: "flat" sends the  *)
(* data object as it is and throws the remote body as the error, "json"    *)
(* is the same with the remote body put through JSON.stringify, "columns"  *)
(* sends lists of {name, value} and throws the remote body's error field.  *)

Services == {"flat", "json", "columns"}

\* throw new Error(message)
Throw(message) == [threw |-> TRUE, message |-> message, endpoint |-> "", payload |-> Undef]

\* the call requestToGo(endpoint, payload) the function ends with
Request(endpoint, payload) ==
    [threw |-> FALSE, message |-> "", endpoint |-> endpoint, payload |-> payload]

\* a parameter with a default value: the default replaces undefined only
Default(v, d) == IF v.t = "undefined" THEN d ELSE v

\* Object.entries(v) of a value that is not null or undefined.  The inputs
\* of the model hold no string here.
Entries(v) ==
    CASE v.t = "object" -> v.o
      [] v.t = "array" -> [i \in 1..Len(v.a) |-> KV(NumStr(i - 1), v.a[i])]
      [] v.t \in {"number", "boolean"} -> <<>>

\* Object.keys(v).length of a value that is not null or undefined
KeyCount(v) == IF v.t = "string" THEN Len(v.s) ELSE Len(Entries(v))

\* Number(v) for the values a project or instance id takes here: a number
\* is itself, a one-digit string is its digit, another non-empty string
\* (the model has none of blanks or of several digits) is NaN
ToNumber(v) ==
    CASE v.t = "number" -> v
      [] v.t = "string" /\ (\E d \in 1..10 : Digit[d] = v.s) ->
            Num((CHOOSE d \in 1..10 : Digit[d] = v.s) - 1)
      [] v.t = "string" /\ v.s # "" /\ ~(\E d \in 1..10 : Digit[d] = v.s) -> NaN
      [] v.t = "boolean" -> Num(v.n)

\* the columns of data, last key first
ColumnListReversed(data) ==
    Arr([i \in 1..Len(Entries(data)) |->
            Obj(Present(<<KV("name", Str(Entries(data)[Len(Entries(data)) + 1 - i].k)),
                          KV("value", Entries(data)[Len(Entries(data)) + 1 - i].v)>>))])

\* Object.entries(data).map(([key, value]) => ({ name: key, value }))
ColumnList(data) ==
    Arr([i \in 1..Len(Entries(data)) |->
            Obj(Present(<<KV("name", Str(Entries(data)[i].k)),
                          KV("value", Entries(data)[i].v)>>))])

\* insert without its check of an empty data
insertFlatAnyData(project_id, id_instancia, table, data) ==
    LET payload == Obj(<<KV("project_id", Coalesce(project_id, Null)),
                         KV("id_instancia", Coalesce(id_instancia, Null)),
                         KV("table", Coalesce(table, Str(""))),
                         KV("data", Coalesce(data, Obj(<<>>)))>>)
    IN  IF ~Truthy(Get(payload, "project_id")) THEN Throw("project_id é obrigatório")
        ELSE IF ~Truthy(Get(payload, "id_instancia")) THEN Throw("id_instancia é obrigatório")
        ELSE IF ~Truthy(Get(payload, "table")) THEN Throw("table é obrigatória")
        ELSE Request("/data/insert", payload)

insertFlat(project_id, id_instancia, table, data) ==
    LET payload == Obj(<<KV("project_id", Coalesce(project_id, Null)),
                         KV("id_instancia", Coalesce(id_instancia, Null)),
                         KV("table", Coalesce(table, Str(""))),
                         KV("data", Coalesce(data, Obj(<<>>)))>>)
    IN  IF ~Truthy(Get(payload, "project_id")) THEN Throw("project_id é obrigatório")
        ELSE IF ~Truthy(Get(payload, "id_instancia")) THEN Throw("id_instancia é obrigatório")
        ELSE IF ~Truthy(Get(payload, "table")) THEN Throw("table é obrigatória")
        ELSE IF KeyCount(Get(payload, "data")) = 0 THEN Throw("data não pode ser vazio")
        ELSE Request("/data/insert", payload)

insertColumns(project_id, id_instancia, table, data) ==
    IF ~Truthy(project_id) THEN Throw("project_id é obrigatório")
    ELSE IF ~Truthy(id_instancia) THEN Throw("id_instancia é obrigatório")
    ELSE IF ~Truthy(table) THEN Throw("table é obrigatória")
    ELSE IF ~Truthy(data) \/ KeyCount(data) = 0 THEN Throw("data não pode ser vazio")
    ELSE Request("/data/insert",
                 Obj(<<KV("project_id", project_id), KV("id_instancia", id_instancia),
                       KV("table", table), KV("columns", ColumnList(data))>>))

insert(s, project_id, id_instancia, table, data) ==
    IF s = "columns" THEN insertColumns(project_id, id_instancia, table, data)
    ELSE insertFlat(project_id, id_instancia, table, data)

\* row => ({ ...row, id_instancia: row.id_instancia ?? id_instancia })
FillInstance(row, id_instancia) ==
    Obj(Present(SetKey(Entries(row), "id_instancia",
                       Coalesce(Get(row, "id_instancia"), id_instancia))))

batchInsertFlat(project_id, id_instancia, table, data) ==
    IF IsArray(data) /\ \E i \in 1..Len(data.a) : Nullish(data.a[i])
    THEN Throw("Cannot read properties of null (reading 'id_instancia')")
    ELSE
    LET rows == IF IsArray(data)
                THEN Arr([i \in 1..Len(data.a) |-> FillInstance(data.a[i], id_instancia)])
                ELSE Arr(<<>>)
        payload == Obj(<<KV("project_id", Coalesce(project_id, Null)),
                         KV("id_instancia", Coalesce(id_instancia, Null)),
                         KV("table", Coalesce(table, Str(""))),
                         KV("data", rows)>>)
    IN  IF ~Truthy(Get(payload, "project_id")) THEN Throw("project_id é obrigatório")
        ELSE IF ~Truthy(Get(payload, "id_instancia")) THEN Throw("id_instancia é obrigatório")
        ELSE IF ~Truthy(Get(payload, "table")) THEN Throw("table é obrigatória")
        ELSE IF Len(rows.a) = 0 THEN Throw("data (array) não pode ser vazio")
        ELSE Request("/data/batch-insert", payload)

batchInsertColumns(project_id, id_instancia, table, data) ==
    IF ~Truthy(project_id) THEN Throw("project_id é obrigatório")
    ELSE IF ~Truthy(id_instancia) THEN Throw("id_instancia é obrigatória")
    ELSE IF ~Truthy(table) THEN Throw("table é obrigatória")
    ELSE IF ~IsArray(data) \/ Len(data.a) = 0 THEN Throw("data deve ser um array não vazio")
    ELSE IF \E i \in 1..Len(data.a) : Nullish(data.a[i])
    THEN Throw("Cannot convert undefined or null to object")
    ELSE Request("/data/batch-insert",
                 Obj(<<KV("project_id", project_id), KV("id_instancia", id_instancia),
                       KV("table", table),
                       KV("rows", Arr([i \in 1..Len(data.a) |-> ColumnList(data.a[i])]))>>))

batchInsert(s, project_id, id_instancia, table, data) ==
    IF s = "columns" THEN batchInsertColumns(project_id, id_instancia, table, data)
    ELSE batchInsertFlat(project_id, id_instancia, table, data)

advancedSelect(options) ==
    LET f(k) == Get(options, k)
    IN  IF ~Truthy(f("project_id")) \/ ~Truthy(f("id_instancia")) \/ ~Truthy(f("table"))
        THEN Throw("project_id, id_instancia e table são obrigatórios")
        ELSE Request("/data/select",
                Obj(<<KV("project_id", ToNumber(f("project_id"))),
                      KV("id_instancia", ToNumber(f("id_instancia"))),
                      KV("table", f("table")),
                      KV("alias", Or(f("alias"), Str(""))),
                      KV("select", IF IsArray(f("select")) THEN f("select") ELSE Arr(<<>>)),
                      KV("joins", IF IsArray(f("joins")) THEN f("joins") ELSE Arr(<<>>)),
                      KV("where", IF Truthy(f("where")) /\ TypeofObject(f("where"))
                                  THEN f("where") ELSE Obj(<<>>)),
                      KV("where_raw", Or(f("where_raw"), Str(""))),
                      KV("group_by", Or(f("group_by"), Str(""))),
                      KV("having", Or(f("having"), Str(""))),
                      KV("order_by", Or(f("order_by"), Str(""))),
                      KV("limit", Or(f("limit"), Num(0))),
                      KV("offset", Or(f("offset"), Num(0)))>>))

update(project_id, id_instancia, table, data, whereArg, whereRawArg) ==
    LET where == Default(whereArg, Obj(<<>>))
        where_raw == Default(whereRawArg, Null)
    IN  IF ~Truthy(project_id) \/ ~Truthy(id_instancia) \/ ~Truthy(table) \/ ~Truthy(data)
        THEN Throw("project_id, id_instancia, table e data são obrigatórios")
        ELSE Request("/data/update",
                Obj(<<KV("project_id", project_id), KV("id_instancia", id_instancia),
                      KV("table", table), KV("data", data),
                      KV("where", Or(where, Obj(<<>>))),
                      KV("where_raw", Or(where_raw, Str("")))>>))

batchUpdate(project_id, id_instancia, table, updates) ==
    IF ~Truthy(project_id) \/ ~Truthy(id_instancia) \/ ~Truthy(table) \/ ~IsArray(updates)
    THEN Throw("project_id, id_instancia, table e updates (array) são obrigatórios")
    ELSE Request("/data/batch-update",
            Obj(<<KV("project_id", project_id), KV("id_instancia", id_instancia),
                  KV("table", table), KV("updates", Or(updates, Arr(<<>>)))>>))

\* deleteRecords refusing a delete that has no filter
deleteRecordsFiltered(project_id, id_instancia, table, whereArg, whereRawArg, modeArg) ==
    LET where == Default(whereArg, Obj(<<>>))
        where_raw == Default(whereRawArg, Null)
        mode == Default(modeArg, Str("hard"))
    IN  IF ~Truthy(project_id) \/ ~Truthy(id_instancia) \/ ~Truthy(table)
        THEN Throw("project_id, id_instancia e table são obrigatórios")
        ELSE IF KeyCount(where) = 0 /\ ~Truthy(where_raw)
        THEN Throw("where ou where_raw são obrigatórios")
        ELSE Request("/data/delete",
                Obj(Present(<<KV("project_id", project_id), KV("id_instancia", id_instancia),
                              KV("table", table), KV("where", where),
                              KV("where_raw", where_raw), KV("mode", mode)>>)))

deleteRecords(project_id, id_instancia, table, whereArg, whereRawArg, modeArg) ==
    LET where == Default(whereArg, Obj(<<>>))
        where_raw == Default(whereRawArg, Null)
        mode == Default(modeArg, Str("hard"))
    IN  IF ~Truthy(project_id) \/ ~Truthy(id_instancia) \/ ~Truthy(table)
        THEN Throw("project_id, id_instancia e table são obrigatórios")
        ELSE Request("/data/delete",
                Obj(Present(<<KV("project_id", project_id), KV("id_instancia", id_instancia),
                              KV("table", table), KV("where", where),
                              KV("where_raw", where_raw), KV("mode", mode)>>)))

\* aggregate with a payload that has the column key only when a column is given
aggregateColumnIfGiven(project_id, id_instancia, table, operation, columnArg, whereArg) ==
    LET column == IF Nullish(columnArg) THEN Undef ELSE columnArg
        where == Default(whereArg, Obj(<<>>))
    IN  IF ~Truthy(project_id) \/ ~Truthy(id_instancia) \/ ~Truthy(table) \/ ~Truthy(operation)
        THEN Throw("project_id, id_instancia, table e operation são obrigatórios")
        ELSE Request("/data/aggregate",
                Obj(Present(<<KV("project_id", project_id), KV("id_instancia", id_instancia),
                              KV("table", table), KV("operation", operation),
                              KV("column", column), KV("where", where)>>)))

aggregate(project_id, id_instancia, table, operation, columnArg, whereArg) ==
    LET column == Default(columnArg, Null)
        where == Default(whereArg, Obj(<<>>))
    IN  IF ~Truthy(project_id) \/ ~Truthy(id_instancia) \/ ~Truthy(table) \/ ~Truthy(operation)
        THEN Throw("project_id, id_instancia, table e operation são obrigatórios")
        ELSE Request("/data/aggregate",
                Obj(Present(<<KV("project_id", project_id), KV("id_instancia", id_instancia),
                              KV("table", table), KV("operation", operation),
                              KV("column", column), KV("where", where)>>)))


-----------------------------------------------------------------------------
(* The call to the Go engine *)

\* timeout of the axios call, in milliseconds
TIMEOUT_MS == 30000

\* the engine answered with a 2xx status and this body
Ok(data) == [kind |-> "2xx", status |-> 200, data |-> data]

\* the engine answered with another status and this body
Failed(status, data) == [kind |-> "non2xx", status |-> status, data |-> data]

\* no answer: kind is "timeout", "refused" or "dns"
Unreachable(kind) == [kind |-> kind, status |-> 0, data |-> Undef]

NoReply == [kind |-> "none", status |-> 0, data |-> Undef]

\* err.message of the error axios.post rejects with
AxiosErrorMessage(r, url) ==
    CASE r.kind = "non2xx" -> "Request failed with status code " \o NumStr(r.status)
      [] r.kind = "timeout" -> "timeout of " \o NumStr(TIMEOUT_MS) \o "ms exceeded"
      [] r.kind = "refused" -> "connect ECONNREFUSED " \o url.host \o ":" \o url.port
      [] r.kind = "dns" -> "getaddrinfo ENOTFOUND " \o url.host

\* err.response?.data
ResponseData(r) == IF r.kind = "non2xx" THEN r.data ELSE Undef

\* return res.data
Returned(data) == [threw |-> FALSE, message |-> "", data |-> data]

\* throw new Error(v)
Thrown(v) == [threw |-> TRUE, message |-> ToStr(v), data |-> Undef]

requestToGoFlat(r, url) ==
    IF r.kind = "2xx" THEN Returned(r.data)
    ELSE Thrown(Or(ResponseData(r), Str(AxiosErrorMessage(r, url))))

requestToGoJson(r, url) ==
    IF r.kind = "2xx" THEN Returned(r.data)
    ELSE LET errorDetail == Or(ResponseData(r), Str(AxiosErrorMessage(r, url)))
         IN  Thrown(IF TypeofObject(errorDetail) THEN Str(ToJSON(errorDetail))
                    ELSE errorDetail)

requestToGoColumns(r, url) ==
    IF r.kind = "2xx" THEN Returned(r.data)
    ELSE Thrown(Or(Get(ResponseData(r), "error"), Str(AxiosErrorMessage(r, url))))

requestToGo(s, r, url) ==
    CASE s = "flat" -> requestToGoFlat(r, url)
      [] s = "json" -> requestToGoJson(r, url)
      [] s = "columns" -> requestToGoColumns(r, url)

-----------------------------------------------------------------------------
(* The controllers.  "try" is the controller that checks the fields        *)
(* inside its try block; "validateFields" is the one that checks them with *)
(* the validateFields helper before it.                                    *)

Controllers == {"try", "validateFields"}

Routes == {"/insert", "/batch-insert", "/get", "/update", "/batch-update", "/delete",
           "/aggregate"}

\* the handler sent this response and returned
Respond(r) == [kind |-> "response", res |-> r, endpoint |-> "", payload |-> Undef]

\* the handler awaits the engine's answer to this call
Forward(endpoint, payload) ==
    [kind |-> "call", res |-> NoResponse, endpoint |-> endpoint, payload |-> payload]

\* a TypeError leaves the async handler
Escaped == [kind |-> "fault", res |-> NoResponse, endpoint |-> "", payload |-> Undef]

\* the check found nothing: the handler goes on
Pass == [kind |-> "pass", res |-> NoResponse, endpoint |-> "", payload |-> Undef]

\* the context the handler of a route gives handleError
Context(route) ==
    CASE route = "/insert" -> "inserir registro"
      [] route = "/batch-insert" -> "inserir registros em lote"
      [] route = "/get" -> "executar consulta avançada"
      [] route = "/update" -> "atualizar registro"
      [] route = "/batch-update" -> "atualizar registros em lote"
      [] route = "/delete" -> "deletar registro(s)"
      [] route = "/aggregate" -> "executar agregação"

\* the message of the handler's 200 response
SuccessMessage(route) ==
    CASE route = "/insert" -> "Registro inserido com sucesso"
      [] route = "/batch-insert" -> "Batch insert realizado com sucesso"
      [] route = "/get" -> "Consulta realizada com sucesso"
      [] route = "/update" -> "Registro atualizado com sucesso"
      [] route = "/batch-update" -> "Batch update realizado com sucesso"
      [] route = "/delete" -> "Registro(s) deletado(s) com sucesso"
      [] route = "/aggregate" -> "Agregação realizada com sucesso"

\* handleError without status(500): the error goes out with status 200
handleErrorNoStatus(context, message) ==
    JsonResponse(200, <<KV("success", Bool(FALSE)), KV("message", Str("Erro ao " \o context)),
                        KV("error", Str(message))>>)

\* res.status(500).json({ success: false, message: `Erro ao ${context}`, error: err.message })
handleError(context, message) ==
    JsonResponse(500, <<KV("success", Bool(FALSE)), KV("message", Str("Erro ao " \o context)),
                        KV("error", Str(message))>>)

\* res.status(400).json({ success: false, message })
BadRequest(message) ==
    JsonResponse(400, <<KV("success", Bool(FALSE)), KV("message", Str(message))>>)

\* requiredFields.filter((f) => !(f in body) || body[f] == null)
Missing(body, requiredFields) ==
    SelectSeq(requiredFields, LAMBDA f : ~HasKey(body, f) \/ Nullish(Get(body, f)))

\* validateFields(res, body, requiredFields, context); first is what the caller
\* passes as res: "res" the response object, "req" the request, which has no
\* status method
validateFields(first, body, requiredFields, context) ==
    IF Len(Missing(body, requiredFields)) > 0
    THEN IF first = "res"
         THEN Respond(BadRequest("Campos obrigatórios ausentes para " \o context \o ": "
                                 \o JoinStr(Missing(body, requiredFields), ", ")))
         ELSE Escaped
    ELSE Pass

\* the try block around the service call: what the service throws is caught
Try(route, r) ==
    IF r.threw THEN Respond(handleError(Context(route), r.message))
    ELSE Forward(r.endpoint, r.payload)


(* controllers/api/goDataEngine.controller.js *)

insertRecord(body, s) ==
    LET project_id == Get(body, "project_id")
        id_instancia == Get(body, "id_instancia")
        table == Get(body, "table")
        data == Get(body, "data")
    IN  IF ~Truthy(project_id) \/ ~Truthy(id_instancia) \/ ~Truthy(table) \/ ~Truthy(data)
        THEN Respond(BadRequest("project_id, id_instancia, table e data são obrigatórios"))
        ELSE Try("/insert", insert(s, project_id, id_instancia, table, data))

batchInsertCtl(body, s) ==
    LET project_id == Get(body, "project_id")
        id_instancia == Get(body, "id_instancia")
        table == Get(body, "table")
        data == Get(body, "data")
    IN  IF ~Truthy(project_id) \/ ~Truthy(id_instancia) \/ ~Truthy(table) \/ ~IsArray(data)
        THEN Respond(BadRequest("project_id, id_instancia, table e data (array) são obrigatórios"))
        ELSE Try("/batch-insert", batchInsert(s, project_id, id_instancia, table, data))

advancedSelectCtl(body, s) ==
    IF ~Truthy(Get(body, "project_id")) \/ ~Truthy(Get(body, "id_instancia"))
       \/ ~Truthy(Get(body, "table"))
    THEN Respond(BadRequest("project_id, id_instancia e table são obrigatórios"))
    ELSE Try("/get", advancedSelect(body))

updateRecord(body, s) ==
    LET project_id == Get(body, "project_id")
        id_instancia == Get(body, "id_instancia")
        table == Get(body, "table")
        data == Get(body, "data")
    IN  IF ~Truthy(project_id) \/ ~Truthy(id_instancia) \/ ~Truthy(table) \/ ~Truthy(data)
        THEN Respond(BadRequest("project_id, id_instancia, table e data são obrigatórios"))
        ELSE Try("/update", update(project_id, id_instancia, table, data,
                                   Or(Get(body, "where"), Obj(<<>>)),
                                   Or(Get(body, "where_raw"), Null)))

batchUpdateCtl(body, s) ==
    LET project_id == Get(body, "project_id")
        id_instancia == Get(body, "id_instancia")
        table == Get(body, "table")
        updates == Get(body, "updates")
    IN  IF ~Truthy(project_id) \/ ~Truthy(id_instancia) \/ ~Truthy(table) \/ ~IsArray(updates)
        THEN Respond(BadRequest("project_id, id_instancia, table e updates (array) são obrigatórios"))
        ELSE Try("/batch-update", batchUpdate(project_id, id_instancia, table, updates))

\* deleteRecord with the other mode as the default
deleteRecordSoftDefault(body, s) ==
    LET project_id == Get(body, "project_id")
        id_instancia == Get(body, "id_instancia")
        table == Get(body, "table")
    IN  IF ~Truthy(project_id) \/ ~Truthy(id_instancia) \/ ~Truthy(table)
        THEN Respond(BadRequest("project_id, id_instancia e table são obrigatórios"))
        ELSE Try("/delete", deleteRecords(project_id, id_instancia, table,
                                          Or(Get(body, "where"), Obj(<<>>)),
                                          Or(Get(body, "where_raw"), Null),
                                          Or(Get(body, "mode"), Str("soft"))))

deleteRecord(body, s) ==
    LET project_id == Get(body, "project_id")
        id_instancia == Get(body, "id_instancia")
        table == Get(body, "table")
    IN  IF ~Truthy(project_id) \/ ~Truthy(id_instancia) \/ ~Truthy(table)
        THEN Respond(BadRequest("project_id, id_instancia e table são obrigatórios"))
        ELSE Try("/delete", deleteRecords(project_id, id_instancia, table,
                                          Or(Get(body, "where"), Obj(<<>>)),
                                          Or(Get(body, "where_raw"), Null),
                                          Or(Get(body, "mode"), Str("hard"))))

aggregateCtl(body, s) ==
    LET project_id == Get(body, "project_id")
        id_instancia == Get(body, "id_instancia")
        table == Get(body, "table")
        operation == Get(body, "operation")
    IN  IF ~Truthy(project_id) \/ ~Truthy(id_instancia) \/ ~Truthy(table) \/ ~Truthy(operation)
        THEN Respond(BadRequest("project_id, id_instancia, table e operation são obrigatórios"))
        ELSE Try("/aggregate", aggregate(project_id, id_instancia, table, operation,
                                         Or(Get(body, "column"), Null),
                                         Or(Get(body, "where"), Obj(<<>>))))

(* the controller with validateFields: each handler hands it req where it  *)
(* expects res                                                             *)

\* const validationError = validateFields(...); if (validationError) return validationError;
\* then: the rest of the handler
Checked(validationError, rest) ==
    IF validationError.kind = "pass" THEN rest ELSE validationError

insertRecordV(body, s) ==
    Checked(validateFields("req", body, <<"project_id", "id_instancia", "table", "data">>, "insert"),
            Try("/insert", insert(s, Get(body, "project_id"), Get(body, "id_instancia"),
                                  Get(body, "table"), Get(body, "data"))))

batchInsertV(body, s) ==
    Checked(validateFields("req", body, <<"project_id", "id_instancia", "table", "data">>,
                           "batch insert"),
            IF ~IsArray(Get(body, "data"))
            THEN Respond(BadRequest("data deve ser um array para batch insert"))
            ELSE Try("/batch-insert",
                     batchInsert(s, Get(body, "project_id"), Get(body, "id_instancia"),
                                 Get(body, "table"), Get(body, "data"))))

advancedSelectV(body, s) ==
    Checked(validateFields("req", body, <<"project_id", "id_instancia", "table">>,
                           "consulta avançada"),
            Try("/get", advancedSelect(body)))

updateRecordV(body, s) ==
    Checked(validateFields("req", body, <<"project_id", "id_instancia", "table", "data">>, "update"),
            Try("/update", update(Get(body, "project_id"), Get(body, "id_instancia"),
                                  Get(body, "table"), Get(body, "data"),
                                  Or(Get(body, "where"), Obj(<<>>)),
                                  Or(Get(body, "where_raw"), Null))))

batchUpdateV(body, s) ==
    Checked(validateFields("req", body, <<"project_id", "id_instancia", "table", "updates">>,
                           "batch update"),
            IF ~IsArray(Get(body, "updates"))
            THEN Respond(BadRequest("updates deve ser um array para batch update"))
            ELSE Try("/batch-update",
                     batchUpdate(Get(body, "project_id"), Get(body, "id_instancia"),
                                 Get(body, "table"), Get(body, "updates"))))

deleteRecordV(body, s) ==
    Checked(validateFields("req", body, <<"project_id", "id_instancia", "table">>, "delete"),
            Try("/delete", deleteRecords(Get(body, "project_id"), Get(body, "id_instancia"),
                                         Get(body, "table"),
                                         Or(Get(body, "where"), Obj(<<>>)),
                                         Or(Get(body, "where_raw"), Null),
                                         Or(Get(body, "mode"), Str("hard")))))

aggregateV(body, s) ==
    Checked(validateFields("req", body, <<"project_id", "id_instancia", "table", "operation">>,
                           "aggregate"),
            Try("/aggregate", aggregate(Get(body, "project_id"), Get(body, "id_instancia"),
                                        Get(body, "table"), Get(body, "operation"),
                                        Or(Get(body, "column"), Null),
                                        Or(Get(body, "where"), Obj(<<>>)))))

\* the 200 response of a handler: res.json({ success: true, message, data: result }),
\* with count for /get
Success(route, entries) ==
    JsonResponse(200, <<KV("success", Bool(TRUE)), KV("message", Str(SuccessMessage(route)))>>
                      \o entries)

\* Completed with a count that adds up over the requests
CompletedCounting(c, route, result) ==
    LET before == IF last.reply = NoReply THEN 0 ELSE Get(last.res.body, "count").n
    IN  IF result.threw THEN handleError(Context(route), result.message)
        ELSE IF route # "/get" THEN Success(route, <<KV("data", result.data)>>)
        ELSE IF c = "try"
        THEN Success(route, <<KV("data", result.data),
                              KV("count", IF IsArray(result.data)
                                          THEN Num(before + Len(result.data.a))
                                          ELSE Num(before))>>)
        ELSE IF Nullish(result.data)
        THEN handleError(Context(route), "Cannot read properties of null (reading 'data')")
        ELSE Success(route, <<KV("data", result.data),
                              KV("count", IF IsArray(Get(result.data, "data"))
                                          THEN Num(before + Len(Get(result.data, "data").a))
                                          ELSE Num(before))>>)

\* the handler after the await: result is what requestToGo returned or threw
Completed(c, route, result) ==
    IF result.threw THEN handleError(Context(route), result.message)
    ELSE IF route # "/get" THEN Success(route, <<KV("data", result.data)>>)
    ELSE IF c = "try"
    THEN Success(route, <<KV("data", result.data),
                          KV("count", IF IsArray(result.data) THEN Num(Len(result.data.a))
                                      ELSE Num(0))>>)
    ELSE IF Nullish(result.data)
    THEN handleError(Context(route), "Cannot read properties of null (reading 'data')")
    ELSE Success(route, <<KV("data", result.data),
                          KV("count", IF IsArray(Get(result.data, "data"))
                                      THEN Num(Len(Get(result.data, "data").a))
                                      ELSE Num(0))>>)

\* what Express does with the rejection of an async handler: nothing (the
\* request gets no response), or the error handler of app.js
UnhandledOutcomes == {NoResponse, [status |-> 500, body |-> Str("Erro interno")]}

\* res.status(500).send("Erro interno")
errorHandler == [status |-> 500, body |-> Str("Erro interno")]


-----------------------------------------------------------------------------
(* The requests, the deployments and the engine's answers of the model *)

\* values of API_KEYS: unset, empty, two keys, a key and an empty piece
EnvKeys == {NoEnv, Env(<<>>), Env(<<"a", ",", "b">>), Env(<<"a", ",">>)}

\* values of the x-api-key header
HeaderKeys == {NoHeader, Header(<<>>), Header(<<"a">>), Header(<<"c">>),
               Header(<<"a", ",", "b">>)}

Urls == {[host |-> "127.0.0.1", port |-> "8080"], [host |-> "10.0.0.7", port |-> "9090"]}

RowSet == {Obj(<<KV("nome", Str("A"))>>),
           Obj(<<KV("nome", Str("B")), KV("id_instancia", Num(99))>>),
           Obj(<<KV("id_instancia", Num(0)), KV("nome", Str("C"))>>)}

\* the arrays of at most n rows
RowLists(n) == UNION {[1..k -> RowSet] : k \in 0..n}

WhereSet == {Undef, Obj(<<KV("id", Num(1))>>)}

\* the fields every route requires
Required ==
    {<<KV("project_id", p), KV("id_instancia", i), KV("table", t)>> :
        p \in {Undef, Num(0), Num(1), Str("abc")}, i \in {Null, Num(10)}, t \in {Undef, Str("t")}}

\* the other fields of a route's body
Extra(route) ==
    CASE route = "/insert" ->
            {<<KV("data", d)>> :
                d \in {Undef, Obj(<<>>), Arr(<<>>), Obj(<<KV("nome", Str("A"))>>),
                       Obj(<<KV("nome", Str("A")), KV("idade", Num(25))>>)}}
      [] route = "/batch-insert" ->
            {<<KV("data", d)>> :
                d \in {Undef, Obj(<<KV("nome", Str("A"))>>)} \cup {Arr(l) : l \in RowLists(MaxRows)}}
      [] route = "/get" ->
            {<<KV("select", s), KV("where", w), KV("limit", l)>> :
                s \in {Undef, Arr(<<Str("id")>>), Str("id")}, w \in WhereSet,
                l \in {Undef, Num(5), Str("ten")}}
      [] route = "/update" ->
            {<<KV("data", d), KV("where", w), KV("where_raw", r)>> :
                d \in {Null, Obj(<<KV("nome", Str("A"))>>)}, w \in WhereSet,
                r \in {Undef, Str("id > 1")}}
      [] route = "/batch-update" ->
            {<<KV("updates", u)>> :
                u \in {Undef, Obj(<<>>), Arr(<<>>),
                       Arr(<<Obj(<<KV("data", Obj(<<KV("nome", Str("A"))>>)),
                                   KV("where", Obj(<<KV("id", Num(1))>>))>>)>>),
                       Arr(<<Obj(<<KV("data", Obj(<<KV("nome", Str("A"))>>))>>)>>)}}
      [] route = "/delete" ->
            {<<KV("where", w), KV("where_raw", r), KV("mode", m)>> :
                w \in WhereSet, r \in {Undef, Str("id > 1")},
                m \in {Undef, Null, Str(""), Str("hard"), Str("soft"), Str("purge")}}
      [] route = "/aggregate" ->
            {<<KV("operation", o), KV("column", c), KV("where", w)>> :
                o \in {Undef, Str("COUNT"), Str("SUM"), Str("MEDIAN")},
                c \in {Undef, Str("total")}, w \in WhereSet}

\* the bodies of the requests to a route: JSON objects, so an undefined field is absent
Bodies(route) == {Obj(Present(r \o e)) : r \in Required, e \in Extra(route)}

\* the answers of the engine
Replies ==
    {Ok(d) : d \in {Null, Arr(<<>>), Arr(<<Obj(<<KV("id", Num(1))>>)>>),
                    Obj(<<KV("success", Bool(TRUE)), KV("count", Num(1))>>),
                    Obj(<<KV("success", Bool(TRUE)),
                          KV("data", Arr(<<Obj(<<KV("id", Num(1))>>), Obj(<<KV("id", Num(2))>>)>>))>>),
                    Obj(<<KV("success", Bool(FALSE)), KV("error", Str("duplicate key"))>>)}}
    \cup {Failed(500, d) : d \in {Str(""), Str("duplicate key"),
                                  Obj(<<KV("error", Str("duplicate key"))>>),
                                  Obj(<<KV("success", Bool(FALSE)),
                                        KV("error", Str("duplicate key"))>>)}}
    \cup {Unreachable(k) : k \in {"timeout", "refused", "dns"}}

NoCall == [endpoint |-> "", payload |-> Undef]

NoRequest ==
    [route |-> "", key |-> NoHeader, params |-> Undef, body |-> Undef, malformed |-> FALSE]

NoFrame == [stage |-> "", error |-> ""]

NoLast == [req |-> NoRequest, reply |-> NoReply, res |-> NoResponse]

-----------------------------------------------------------------------------
(* The state machine *)

Init ==
    /\ API_KEYS \in EnvKeys
    /\ GO_API_URL \in Urls
    /\ ctrl \in Controllers
    /\ svc \in Services
    /\ pc = "idle"
    /\ req = NoRequest
    /\ res = NoResponse
    /\ sent = NoCall
    /\ calls = 0
    /\ validated = FALSE
    /\ reply = NoReply
    /\ escaped = FALSE
    /\ last = NoLast
    /\ session = Undef
    /\ frame = NoFrame
    /\ log = <<>>
    /\ signedIn = FALSE

\* the admin site, which the /api routes do not touch
site == <<session, frame, log, signedIn>>

deployment == <<API_KEYS, GO_API_URL, ctrl, svc>>

\* the request is received: nothing is known of it but what it carries
Arrives(r) ==
    /\ pc = "idle"
    /\ req' = r
    /\ pc' = "parser"
    /\ res' = NoResponse
    /\ sent' = NoCall
    /\ calls' = 0
    /\ validated' = FALSE
    /\ reply' = NoReply
    /\ escaped' = FALSE
    /\ UNCHANGED <<deployment, last, site>>

\* a request arrives at one of the routes of routes/api/index.js, its body a
\* JSON object or a text that is not JSON
Receive ==
    /\ pc = "idle"
    /\ \E route \in Routes, key \in HeaderKeys :
         \/ \E body \in Bodies(route) :
                Arrives([route |-> route, key |-> key, body |-> body, params |-> Obj(<<>>), malformed |-> FALSE])
         \/ Arrives([route |-> route, key |-> key, body |-> Undef, params |-> Obj(<<>>), malformed |-> TRUE])

\* express.json() parses the body before the routes; what it throws on a
\* malformed body goes to the error handler of app.js
ExpressJson ==
    /\ pc = "parser"
    /\ IF req.malformed
       THEN pc' = "done" /\ res' = errorHandler
       ELSE pc' = "middleware" /\ res' = res
    /\ UNCHANGED <<deployment, req, sent, calls, validated, reply, escaped, last, site>>

\* the middleware of the route answers 401 or calls next()
ValidateApiKey ==
    /\ pc = "middleware"
    /\ LET m == validateApiKey(API_KEYS, req.key)
       IN  /\ res' = m.res
           /\ pc' = IF m.next THEN "controller" ELSE "done"
    /\ UNCHANGED <<deployment, req, sent, calls, validated, reply, escaped, last, site>>

\* the handler of a route, up to its await or its return
Handle(route, out) ==
    /\ pc = "controller"
    /\ req.route = route
    /\ validated' = TRUE
    /\ CASE out.kind = "response" ->
                pc' = "done" /\ res' = out.res /\ UNCHANGED <<sent, calls, escaped>>
         [] out.kind = "call" ->
                /\ pc' = "awaiting"
                /\ sent' = [endpoint |-> out.endpoint, payload |-> out.payload]
                /\ calls' = calls + 1
                /\ UNCHANGED <<res, escaped>>
         [] out.kind = "fault" ->
                /\ pc' = "done"
                /\ escaped' = TRUE
                /\ res' \in UnhandledOutcomes
                /\ UNCHANGED <<sent, calls>>
    /\ UNCHANGED <<deployment, req, reply, last, site>>

InsertRecord ==
    Handle("/insert", IF ctrl = "try" THEN insertRecord(req.body, svc)
                      ELSE insertRecordV(req.body, svc))

BatchInsert ==
    Handle("/batch-insert", IF ctrl = "try" THEN batchInsertCtl(req.body, svc)
                            ELSE batchInsertV(req.body, svc))

AdvancedSelect ==
    Handle("/get", IF ctrl = "try" THEN advancedSelectCtl(req.body, svc)
                   ELSE advancedSelectV(req.body, svc))

UpdateRecord ==
    Handle("/update", IF ctrl = "try" THEN updateRecord(req.body, svc)
                      ELSE updateRecordV(req.body, svc))

BatchUpdate ==
    Handle("/batch-update", IF ctrl = "try" THEN batchUpdateCtl(req.body, svc)
                            ELSE batchUpdateV(req.body, svc))

DeleteRecord ==
    Handle("/delete", IF ctrl = "try" THEN deleteRecord(req.body, svc)
                      ELSE deleteRecordV(req.body, svc))

Aggregate ==
    Handle("/aggregate", IF ctrl = "try" THEN aggregateCtl(req.body, svc)
                         ELSE aggregateV(req.body, svc))

\* GoReplies with a failed call issued once more
GoRepliesRetry ==
    /\ pc = "awaiting"
    /\ \E r \in Replies :
         /\ reply' = r
         /\ IF r.kind # "2xx" /\ calls < 2
            THEN pc' = "awaiting" /\ calls' = calls + 1 /\ res' = res
            ELSE /\ pc' = "done" /\ calls' = calls
                 /\ res' = Completed(ctrl, req.route, requestToGo(svc, r, GO_API_URL))
    /\ UNCHANGED <<deployment, req, sent, validated, escaped, last, site>>

\* the engine answers, or the call fails; the handler resumes and responds
GoReplies ==
    /\ pc = "awaiting"
    /\ \E r \in Replies :
         /\ reply' = r
         /\ res' = Completed(ctrl, req.route, requestToGo(svc, r, GO_API_URL))
    /\ pc' = "done"
    /\ UNCHANGED <<deployment, req, sent, calls, validated, escaped, last, site>>

\* the response is out: nothing of the request is kept
Close ==
    /\ pc = "done"
    /\ pc' = "idle"
    /\ req' = NoRequest
    /\ res' = NoResponse
    /\ sent' = NoCall
    /\ calls' = 0
    /\ validated' = FALSE
    /\ reply' = NoReply
    /\ escaped' = FALSE
    /\ UNCHANGED <<deployment, last, site>>

Next ==
    \/ Receive
    \/ ExpressJson
    \/ ValidateApiKey
    \/ InsertRecord
    \/ BatchInsert
    \/ AdvancedSelect
    \/ UpdateRecord
    \/ BatchUpdate
    \/ DeleteRecord
    \/ Aggregate
    \/ GoReplies
    \/ Close

Spec == Init /\ [][Next]_vars

-----------------------------------------------------------------------------
(* /get requests one after the other, each answered request kept in last   *)
(* when the next one comes                                                 *)

\* the /get requests of the sequence: instance and table given, the key
\* listed or not
GetRequests ==
    {[route |-> "/get", key |-> key, body |-> body, params |-> Obj(<<>>), malformed |-> FALSE] :
        key \in {Header(<<"a">>), Header(<<"c">>)},
        body \in {b \in Bodies("/get") :
                    /\ Truthy(Get(b, "id_instancia")) /\ Truthy(Get(b, "table"))
                    /\ ~HasKey(b, "select") /\ Get(b, "limit") # Str("ten")}}

ReceiveGet ==
    /\ pc = "idle"
    /\ \E r \in GetRequests : Arrives(r)

\* the response is out; the request, the engine's answer and the response
\* are remembered if the engine was called
CloseGet ==
    /\ pc = "done"
    /\ pc' = "idle"
    /\ last' = IF reply # NoReply THEN [req |-> req, reply |-> reply, res |-> res] ELSE last
    /\ req' = NoRequest
    /\ res' = NoResponse
    /\ sent' = NoCall
    /\ calls' = 0
    /\ validated' = FALSE
    /\ reply' = NoReply
    /\ escaped' = FALSE
    /\ UNCHANGED <<deployment, site>>

NextGet ==
    \/ ReceiveGet
    \/ ExpressJson
    \/ ValidateApiKey
    \/ AdvancedSelect
    \/ GoReplies
    \/ CloseGet

SpecGet == Init /\ [][NextGet]_vars


-----------------------------------------------------------------------------
(* The services behind the admin site, and the functions of the data       *)
(* service that no /api route calls                                        *)

joinSelect(options) ==
    LET f(k, d) == Default(Get(options, k), d)
        project_id == Get(options, "project_id")
        id_instancia == Get(options, "id_instancia")
        base == Get(options, "base")
    IN  IF ~Truthy(project_id) \/ ~Truthy(id_instancia) \/ ~Truthy(Get(base, "table"))
        THEN Throw("project_id, id_instancia e base.table são obrigatórios")
        ELSE Request("/data/join-select",
                Obj(Present(<<KV("project_id", project_id), KV("id_instancia", id_instancia),
                              KV("base", base),
                              KV("joins", f("joins", Arr(<<>>))),
                              KV("where", f("where", Obj(<<>>))),
                              KV("where_raw", f("where_raw", Arr(<<>>))),
                              KV("group_by", f("group_by", Str(""))),
                              KV("having", f("having", Str(""))),
                              KV("order_by", f("order_by", Str(""))),
                              KV("limit", f("limit", Null)),
                              KV("offset", f("offset", Null))>>)))

\* what listProjects makes of the engine's answer to GET /projects
listProjects(r) ==
    IF r.kind # "2xx" THEN Thrown(Or(ResponseData(r), Str("Erro ao listar projetos")))
    ELSE IF Truthy(r.data) /\ IsArray(r.data) THEN Returned(r.data)
    ELSE IF Truthy(r.data) /\ Truthy(Get(r.data, "data")) THEN Returned(Get(r.data, "data"))
    ELSE Returned(Arr(<<>>))

\* what listInstances makes of the engine's answer to GET /instances
listInstances(r) ==
    IF r.kind # "2xx" THEN Thrown(Or(ResponseData(r), Str("Erro ao listar instâncias")))
    ELSE IF IsArray(r.data) THEN Returned(r.data)
    ELSE IF Truthy(r.data) /\ Truthy(Get(r.data, "data")) THEN Returned(Get(r.data, "data"))
    ELSE Returned(Arr(<<>>))

\* what listTables makes of the engine's answer to GET /schema/tables
listTables(r) ==
    IF r.kind # "2xx" THEN Thrown(Or(ResponseData(r), Str("Erro ao listar tabelas")))
    ELSE IF IsArray(r.data) THEN Returned(r.data)
    ELSE Returned(Arr(<<>>))

\* the catch block of callGoEngine: it logs erroReal.error[1] and returns [];
\* reading [1] of an undefined error is a TypeError that leaves the function
callGoEngineCatch(erroReal) ==
    IF Nullish(Get(erroReal, "error"))
    THEN Thrown(Str("Cannot read properties of undefined (reading '1')"))
    ELSE Returned(Arr(<<>>))

\* what callGoEngine makes of the engine's answer: return result.data.data
callGoEngine(r, url) ==
    IF r.kind # "2xx"
    THEN callGoEngineCatch(Or(ResponseData(r), Str(AxiosErrorMessage(r, url))))
    ELSE IF Nullish(r.data) \/ Nullish(Get(r.data, "data"))
    THEN callGoEngineCatch(Str("Cannot read properties of undefined (reading 'data')"))
    ELSE Returned(Get(Get(r.data, "data"), "data"))

\* buildPayload(base, input): the keys of base, each with the input's value
\* unless that is undefined, null or ""
buildPayload(base, input) ==
    Obj([i \in 1..Len(base) |->
            LET value == Get(input, base[i].k)
            IN  KV(base[i].k, IF Nullish(value) \/ value = Str("") THEN base[i].v ELSE value)])

\* buildProjectPayload of the projects service
buildProjectPayload(data) ==
    buildPayload(<<KV("name", Str("")), KV("code", Str("")), KV("description", Str("")),
                   KV("api_key", Str("")), KV("type", Str("")), KV("version", Str("1.0.0")),
                   KV("status", Str("active"))>>, data)

\* buildInstancePayload of the projects service
buildInstancePayload(data) ==
    buildPayload(<<KV("project_id", Null), KV("client_name", Str("")), KV("email", Str("")),
                   KV("phone", Str("")), KV("price", Num(0)), KV("payment_day", Null),
                   KV("name", Str("")), KV("code", Str("")), KV("description", Str("")),
                   KV("status", Str("active")), KV("settings", Obj(<<>>))>>, data)

RECURSIVE Spread(_, _)
\* the entries of { ...a, ...b }
Spread(a, b) == IF Len(b) = 0 THEN a ELSE Spread(SetKey(a, Head(b).k, Head(b).v), Tail(b))

\* a == b of two ids
LooseEq(a, b) ==
    IF a.t = b.t THEN a = b
    ELSE IF {a.t, b.t} = {"number", "string"} THEN ToNumber(a) = ToNumber(b)
    ELSE Nullish(a) /\ Nullish(b)

\* list.find(p => p.id == id), of a list of objects
Find(list, id) ==
    IF \E i \in 1..Len(list.a) : LooseEq(Get(list.a[i], "id"), id)
    THEN list.a[CHOOSE i \in 1..Len(list.a) :
                    /\ LooseEq(Get(list.a[i], "id"), id)
                    /\ \A j \in 1..(i - 1) : ~LooseEq(Get(list.a[j], "id"), id)]
    ELSE Undef

\* updateFound that sends the PUT whether or not the list holds the id
updateFoundUnchecked(listed, id, data, notFound, path) ==
    IF listed.threw THEN Throw(listed.message)
    ELSE IF ~IsArray(listed.data) THEN Throw("find is not a function")
    ELSE Request("PUT " \o path \o "/" \o ToStr(id),
                 Obj(Spread(Find(listed.data, id).o, data.o)))

\* the service's updateProject and updateInstance once the list has come:
\* listed is what listProjects or listInstances made of the answer, and the
\* PUT carries { ...current, ...data } for the payload builder
updateFound(listed, id, data, notFound, path) ==
    IF listed.threw THEN Throw(listed.message)
    ELSE IF ~IsArray(listed.data) THEN Throw("find is not a function")
    ELSE IF ~Truthy(Find(listed.data, id)) THEN Throw(notFound)
    ELSE Request("PUT " \o path \o "/" \o ToStr(id),
                 Obj(Spread(Find(listed.data, id).o, data.o)))

updateProject(id, projectData, r) ==
    LET q == updateFound(listProjects(r), id, projectData,
                         "Projeto não encontrado para atualização", "/projects")
    IN  IF q.threw THEN q ELSE Request(q.endpoint, buildProjectPayload(q.payload))

\* updateInstance before its first call
updateInstanceStart(id, instanceData) ==
    IF ~Truthy(Get(instanceData, "project_id"))
    THEN Throw("project_id é obrigatório para update de instância")
    ELSE Request("GET /instances",
                 Obj(<<KV("project_id", Get(instanceData, "project_id"))>>))

updateInstance(id, instanceData, r) ==
    LET q == updateFound(listInstances(r), id, instanceData, "Instância não encontrada",
                         "/instances")
    IN  IF q.threw THEN q ELSE Request(q.endpoint, buildInstancePayload(q.payload))

\* the end of a service function that returns response.data and rethrows err
ResponseDataOrRethrow(r, url) ==
    IF r.kind = "2xx" THEN Returned(r.data)
    ELSE [threw |-> TRUE, message |-> AxiosErrorMessage(r, url), data |-> Undef]

-----------------------------------------------------------------------------
(* The admin site: the session gate, the handlers of the projects and      *)
(* tables routes, and the service functions called by other modules.  A    *)
(* handler or function is taken from one await to the next: stage "" is    *)
(* its start, any other stage is where it resumes with the answer r.       *)

\* process.env.ADMIN_PASSWORD || "senha_super_secreta"
ADMIN_PASSWORD == Str("senha_super_secreta")

\* res.render(view, locals)
Render(view, locals) == [status |-> 200, body |-> Obj(<<KV("render", Str(view))>> \o locals)]

\* res.redirect(url)
Redirect(url) == [status |-> 302, body |-> Obj(<<KV("redirect", Str(url))>>)]

\* what a service function called by another module hands back to it
ServiceResult(o) ==
    [status |-> 0,
     body |-> Obj(IF o.threw THEN <<KV("threw", Str(o.message))>>
                  ELSE <<KV("returned", o.data)>>)]

\* the handler sends this response
Send(r) == [kind |-> "send", res |-> r, call |-> NoCall, stage |-> "", error |-> ""]

\* the handler awaits this call, to resume at stage
Await(endpoint, payload, stage, error) ==
    [kind |-> "await", res |-> NoResponse, call |-> [endpoint |-> endpoint, payload |-> payload],
     stage |-> stage, error |-> error]

\* an error leaves the async handler
Unhandled == [kind |-> "fault", res |-> NoResponse, call |-> NoCall, stage |-> "", error |-> ""]

\* req.flash(...) and then the response.  app.js mounts no middleware that
\* defines req.flash: the call is a TypeError, and what catches it comes next
Flash(then, caught) == caught

\* buildProjectPayload of the projects controller
ctlProjectPayload(data) ==
    Obj(<<KV("name", Or(Get(data, "name"), Str(""))),
          KV("code", Or(Get(data, "code"), Str(""))),
          KV("type", Or(Get(data, "type"), Str(""))),
          KV("version", Or(Get(data, "version"), Str("1.0"))),
          KV("status", Or(Get(data, "status"), Str("active"))),
          KV("api_key", Or(Get(data, "api_key"), Str("")))>>)

\* validateProjectPayload throws: a required field is empty (the model's
\* strings have no blanks)
ProjectPayloadMissing(payload) ==
    \E i \in 1..Len(payload.o) : ~Truthy(payload.o[i].v)

\* buildInstancePayload of the projects controller
ctlInstancePayload(data) ==
    LET NumberOr(v, d) ==
            IF Nullish(v) \/ v = Str("") \/ ~Truthy(ToNumber(v)) THEN d ELSE ToNumber(v)
    IN
    Obj(<<KV("project_id", NumberOr(Get(data, "project_id"), Null)),
          KV("client_name", Or(Get(data, "client_name"), Str(""))),
          KV("email", Or(Get(data, "email"), Str(""))),
          KV("phone", Or(Get(data, "phone"), Str(""))),
          KV("price", NumberOr(Get(data, "price"), Num(0))),
          KV("payment_day", NumberOr(Get(data, "payment_day"), Null)),
          KV("name", Or(Get(data, "name"), Str(""))),
          KV("code", Or(Get(data, "code"), Str(""))),
          KV("description", Or(Get(data, "description"), Str(""))),
          KV("status", Or(Get(data, "status"), Str("active"))),
          KV("settings", Or(Get(data, "settings"), Obj(<<>>)))>>)

\* validateInstancePayload throws
InstancePayloadMissing(payload) ==
    \E f \in {"project_id", "client_name", "email", "name", "code"} :
        ~Truthy(Get(payload, f)) /\ Get(payload, f) # Num(0)


\* login that does not compare the password
loginAnyPassword(body, s) ==
    [session |-> Bool(TRUE), res |-> Redirect("/admin/dashboard")]

\* login of the dashboard controller: s is req.session.adminAuthenticated
login(body, s) ==
    IF Get(body, "password") = ADMIN_PASSWORD
    THEN [session |-> Bool(TRUE), res |-> Redirect("/admin/dashboard")]
    ELSE [session |-> s,
          res |-> Render("admin/login", <<KV("error", Str("Senha incorreta!"))>>)]

authMiddleware(s) ==
    IF Truthy(s) THEN [next |-> TRUE, res |-> NoResponse]
    ELSE [next |-> FALSE, res |-> Redirect("/admin/login")]

logout(s) == [session |-> Bool(FALSE), res |-> Redirect("/admin/login")]

dashboard(stage, r) ==
    IF stage = "" THEN Await("GET /projects", Undef, "list", "")
    ELSE LET projects == listProjects(r)
         IN  IF projects.threw
             THEN Send(Render("admin/dashboard",
                              <<KV("projects", Arr(<<>>)),
                                KV("error", Str("Erro ao carregar projetos"))>>))
             ELSE Send(Render("admin/dashboard", <<KV("projects", projects.data)>>))

\* createProject of the projects controller
createProjectCtl(request, stage, r) ==
    LET payload == ctlProjectPayload(request.body)
        caught == Flash(Send(Redirect("/admin/projects/create")), Unhandled)
    IN  CASE stage = "" ->
                IF ProjectPayloadMissing(payload) THEN caught
                ELSE Await("POST /projects", buildProjectPayload(payload), "create", "")
          [] stage = "create" ->
                IF r.kind = "2xx" THEN Flash(Send(Redirect("/admin/projects")), caught)
                ELSE caught

\* updateProject of the projects controller
updateProjectCtl(request, stage, error, r, url) ==
    LET id == Get(request.params, "id")
        payload == ctlProjectPayload(request.body)
        caught(message) == Await("GET /projects", Undef, "catch", message)
    IN  CASE stage = "" ->
                IF ProjectPayloadMissing(payload) THEN caught("Campos obrigatórios ausentes")
                ELSE Await("GET /projects", Undef, "svc.list", "")
          [] stage = "svc.list" ->
                LET q == updateProject(id, payload, r)
                IN  IF q.threw THEN caught(q.message)
                    ELSE Await(q.endpoint, q.payload, "svc.put", "")
          [] stage = "svc.put" ->
                LET o == ResponseDataOrRethrow(r, url)
                IN  IF o.threw THEN caught(o.message)
                    ELSE Await("GET /projects", Undef, "ctl.list", "")
          [] stage = "ctl.list" ->
                LET projects == listProjects(r)
                IN  IF projects.threw THEN caught(projects.message)
                    ELSE IF ~IsArray(projects.data) THEN caught("projects.find is not a function")
                    ELSE IF ~Truthy(Find(projects.data, id))
                    THEN Flash(Send(Redirect("/admin/projects")),
                               caught("req.flash is not a function"))
                    ELSE Send(Render("admin/projects/edit",
                                     <<KV("project", Find(projects.data, id)),
                                       KV("success", Str("Projeto atualizado com sucesso!"))>>))
          [] stage = "catch" ->
                LET projects == listProjects(r)
                IN  IF projects.threw \/ ~IsArray(projects.data) THEN Unhandled
                    ELSE Send(Render("admin/projects/edit",
                                     <<KV("project", Find(projects.data, id)),
                                       KV("error", Str(error))>>))

\* createInstance of the projects controller
createInstanceCtl(request, stage, error, r, url) ==
    LET projectId == Get(request.params, "projectId")
        instances == "/admin/projects/" \o ToStr(projectId) \o "/instances"
        payload == ctlInstancePayload(
                       Obj(Spread(request.body.o, <<KV("project_id", projectId)>>)))
        caught(message) == Await("GET /projects", Undef, "catch", message)
    IN  CASE stage = "" ->
                IF InstancePayloadMissing(payload) THEN caught("Campos obrigatórios ausentes")
                ELSE Await("POST /instances", buildInstancePayload(payload), "create", "")
          [] stage = "create" ->
                IF r.kind = "2xx" THEN Send(Redirect(instances))
                ELSE caught(AxiosErrorMessage(r, url))
          [] stage = "catch" ->
                LET projects == listProjects(r)
                IN  IF projects.threw \/ ~IsArray(projects.data) THEN Unhandled
                    ELSE Send(Render("admin/projects/create-instance",
                                     <<KV("project", Find(projects.data, projectId)),
                                       KV("error", Str(error))>>))

\* updateInstance of the projects controller
updateInstanceCtl(request, stage, r) ==
    LET projectId == Get(request.params, "projectId")
        instanceId == Get(request.params, "instanceId")
        instances == "/admin/projects/" \o ToStr(projectId) \o "/instances"
        payload == ctlInstancePayload(
                       Obj(Spread(request.body.o, <<KV("project_id", projectId)>>)))
        caught == Send(Redirect(instances \o "/" \o ToStr(instanceId) \o "/edit"))
    IN  CASE stage = "" ->
                IF InstancePayloadMissing(payload) THEN caught
                ELSE LET q == updateInstanceStart(instanceId, payload)
                     IN  IF q.threw THEN caught
                         ELSE Await(q.endpoint, q.payload, "svc.list", "")
          [] stage = "svc.list" ->
                LET q == updateInstance(instanceId, payload, r)
                IN  IF q.threw THEN caught ELSE Await(q.endpoint, q.payload, "svc.put", "")
          [] stage = "svc.put" ->
                IF r.kind = "2xx" THEN Send(Redirect(instances)) ELSE caught

\* deleteTable of the tables controller
deleteTableCtl(request, stage, r) ==
    LET project_id == Get(request.body, "project_id")
        table == Get(request.body, "table")
        caught == Send(JsonResponse(500, <<KV("success", Bool(FALSE)),
                                           KV("message", Str("Erro ao deletar tabela"))>>))
    IN  CASE stage = "" ->
                IF ~Truthy(project_id) \/ ~Truthy(table)
                THEN Send(JsonResponse(400,
                          <<KV("success", Bool(FALSE)),
                            KV("message", Str("project_id e table são obrigatórios"))>>))
                ELSE Await("GET /projects", Undef, "list", "")
          [] stage = "list" ->
                LET projects == listProjects(r)
                IN  IF projects.threw \/ ~IsArray(projects.data) THEN caught
                    ELSE IF ~Truthy(Find(projects.data, project_id)) THEN caught
                    ELSE Await("DELETE /schema/table",
                               Obj(<<KV("project_code",
                                        Get(Find(projects.data, project_id), "code")),
                                     KV("table", table)>>), "delete", "")
          [] stage = "delete" ->
                IF r.kind = "2xx"
                THEN Send(Redirect("/admin/tables?project_id=" \o ToStr(project_id)))
                ELSE caught


\* a service function called by another module: request.route names the
\* function, request.body is its argument, request.params.id its id
serviceCall(request, stage, r, s, url) ==
    LET f == request.route
        arg == request.body
        id == Get(request.params, "id")
        return(o) == Send(ServiceResult(o))
        call(q, next) == IF q.threw THEN return(q) ELSE Await(q.endpoint, q.payload, next, "")
    IN  CASE f = "joinSelect" ->
                IF stage = "" THEN call(joinSelect(arg), "post")
                ELSE return(requestToGo(s, r, url))
          [] f = "callGoEngine" ->
                IF stage = ""
                THEN Await("POST /" \o ToStr(id),
                           Obj(Spread(<<KV("project_id", Str("PROJECT_ID")),
                                        KV("id_instancia", Str("ID_INSTANCIA"))>>, arg.o)),
                           "post", "")
                ELSE return(callGoEngine(r, url))
          [] f = "listProjects" ->
                IF stage = "" THEN Await("GET /projects", Undef, "get", "")
                ELSE return(listProjects(r))
          [] f = "listInstances" ->
                IF stage = ""
                THEN Await("GET /instances",
                           IF Truthy(id) THEN Obj(<<KV("project_id", id)>>) ELSE Obj(<<>>),
                           "get", "")
                ELSE return(listInstances(r))
          [] f = "listTables" ->
                IF stage = ""
                THEN Await("GET /schema/tables", Obj(<<KV("project_code", id)>>), "get", "")
                ELSE return(listTables(r))
          [] f = "updateProject" ->
                (CASE stage = "" -> Await("GET /projects", Undef, "svc.list", "")
                   [] stage = "svc.list" -> call(updateProject(id, arg, r), "svc.put")
                   [] stage = "svc.put" -> return(ResponseDataOrRethrow(r, url)))
          [] f = "updateInstance" ->
                (CASE stage = "" -> call(updateInstanceStart(id, arg), "svc.list")
                   [] stage = "svc.list" -> call(updateInstance(id, arg, r), "svc.put")
                   [] stage = "svc.put" -> return(ResponseDataOrRethrow(r, url)))

-----------------------------------------------------------------------------
(* The requests to the admin site, the calls of the service functions and  *)
(* the engine's answers to them                                            *)

ServiceFunctions ==
    {"joinSelect", "callGoEngine", "listProjects", "listInstances", "listTables",
     "updateProject", "updateInstance"}

\* the requests of one browser session and the calls of the other modules
AdminRequests ==
    LET R(route, params, body) ==
            [route |-> route, key |-> NoHeader, params |-> params, body |-> body,
             malformed |-> FALSE]
        none == Obj(<<>>)
        Id(k, v) == Obj(<<KV(k, v)>>)
        projectForm == Obj(<<KV("name", Str("loja")), KV("code", Str("loja")),
                             KV("type", Str("web")), KV("api_key", Str("k"))>>)
        instanceForm == Obj(<<KV("client_name", Str("Ana")), KV("email", Str("a@b")),
                              KV("name", Str("loja")), KV("code", Str("loja"))>>)
        forms(f) == {f, none}
        joined == Obj(<<KV("project_id", Num(1)), KV("id_instancia", Num(1)),
                        KV("base", Obj(<<KV("table", Str("t"))>>))>>)
    IN  {R("/admin/login", none, b) :
            b \in {none, Id("password", Str("x")), Id("password", ADMIN_PASSWORD)}}
        \cup {R(route, none, none) : route \in {"/admin/logout", "/admin/dashboard"}}
        \cup {R("/admin/projects/api", none, b) : b \in forms(projectForm)}
        \cup {R("/admin/projects/:id", Id("id", id), b) :
                id \in {Str("1"), Str("2")}, b \in forms(projectForm)}
        \cup {R("/admin/projects/:projectId/instances", Id("projectId", Str("1")), b) :
                b \in forms(instanceForm)}
        \cup {R("/admin/projects/:projectId/instances/:instanceId",
                Obj(<<KV("projectId", Str("1")), KV("instanceId", id)>>), b) :
                id \in {Str("1"), Str("2")}, b \in forms(instanceForm)}
        \cup {R("/admin/tables/delete", none, b) :
                b \in {Id("project_id", Str("1")),
                       Obj(<<KV("project_id", Str("1")), KV("table", Str("t"))>>),
                       Obj(<<KV("project_id", Str("2")), KV("table", Str("t"))>>)}}
        \cup {R("joinSelect", none, o) :
                o \in {joined,
                       Obj(joined.o \o <<KV("limit", Num(5)), KV("offset", Num(0))>>),
                       Obj(joined.o \o <<KV("joins", Null), KV("limit", Null)>>),
                       Obj(<<KV("project_id", Num(1)), KV("id_instancia", Num(1))>>)}}
        \cup {R("callGoEngine", Id("id", Str("select")), Id("table", Str("t")))}
        \cup {R("listProjects", none, none)}
        \cup {R("listInstances", Id("id", id), none) : id \in {Null, Num(1)}}
        \cup {R("listTables", Id("id", Str("loja")), none)}
        \cup {R("updateProject", Id("id", id), Id("name", Str("nova"))) :
                id \in {Num(1), Num(2)}}
        \cup {R("updateInstance", Id("id", Num(1)), b) :
                b \in {Id("name", Str("nova")),
                       Obj(<<KV("project_id", Num(1)), KV("name", Str("nova"))>>)}}

\* what the engine answers to a call of the admin site: a list, a wrapper
\* object, a single object, a scalar, nothing, or a failure
AdminReplies ==
    LET one == Obj(<<KV("id", Num(1)), KV("name", Str("loja")), KV("code", Str("loja"))>>)
    IN  {Ok(d) : d \in {Arr(<<one>>), Arr(<<>>),
                        Obj(<<KV("data", Arr(<<one>>))>>),
                        Obj(<<KV("data", one)>>),
                        Obj(<<KV("data", Obj(<<KV("data", Arr(<<one>>))>>))>>),
                        one, Num(5), Null}}
        \cup {Failed(500, d) : d \in {Str("boom"), Obj(<<KV("error", Str("boom"))>>)}}
        \cup {Unreachable("timeout")}

-----------------------------------------------------------------------------
(* The state machine of the admin site and of the service functions *)

\* every route of the admin site goes through authMiddleware
GuardedAll == {r.route : r \in AdminRequests} \ ServiceFunctions

\* the routes mounted with authMiddleware
Guarded == {"/admin/dashboard", "/admin/logout"}

\* a request of the session arrives, or another module calls a function
ReceiveAdmin ==
    /\ pc = "idle"
    /\ \E r \in AdminRequests :
         /\ req' = r
         /\ pc' = IF r.route \in Guarded THEN "middleware" ELSE "controller"
    /\ res' = NoResponse
    /\ sent' = NoCall
    /\ calls' = 0
    /\ reply' = NoReply
    /\ escaped' = FALSE
    /\ frame' = NoFrame
    /\ log' = <<>>
    /\ UNCHANGED <<deployment, validated, last, session, signedIn>>

\* authMiddleware of a guarded route redirects or calls next()
AuthMiddleware ==
    /\ pc = "middleware"
    /\ LET m == authMiddleware(session)
       IN  /\ res' = m.res
           /\ pc' = IF m.next THEN "controller" ELSE "done"
    /\ UNCHANGED <<deployment, req, sent, calls, validated, reply, escaped, last, site>>

Login ==
    /\ pc = "controller"
    /\ req.route = "/admin/login"
    /\ LET l == login(req.body, session)
       IN  /\ session' = l.session
           /\ res' = l.res
           /\ signedIn' = IF /\ Get(req.body, "password") = ADMIN_PASSWORD
                             /\ l.res = Redirect("/admin/dashboard")
                          THEN TRUE ELSE signedIn
    /\ pc' = "done"
    /\ UNCHANGED <<deployment, req, sent, calls, validated, reply, escaped, last, frame, log>>

Logout ==
    /\ pc = "controller"
    /\ req.route = "/admin/logout"
    /\ session' = logout(session).session
    /\ res' = logout(session).res
    /\ signedIn' = FALSE
    /\ pc' = "done"
    /\ UNCHANGED <<deployment, req, sent, calls, validated, reply, escaped, last, frame, log>>

\* what a handler or function goes on with: nothing at its start, the
\* engine's answer to its call when it is awaiting one
Answers == IF pc = "awaiting" THEN AdminReplies ELSE {NoReply}

\* the handler or function of these routes runs to its next await, its
\* response or its end; r is the answer it resumed with, NoReply at its start
Step(routes, out, r) ==
    /\ pc \in {"controller", "awaiting"}
    /\ req.route \in routes
    /\ reply' = r
    /\ log' = IF r = NoReply THEN log ELSE Append(log, [call |-> sent, reply |-> r])
    /\ CASE out.kind = "send" ->
                /\ pc' = "done"
                /\ res' = out.res
                /\ frame' = NoFrame
                /\ UNCHANGED <<sent, calls, escaped>>
         [] out.kind = "await" ->
                /\ pc' = "awaiting"
                /\ sent' = out.call
                /\ calls' = calls + 1
                /\ frame' = [stage |-> out.stage, error |-> out.error]
                /\ UNCHANGED <<res, escaped>>
         [] out.kind = "fault" ->
                /\ pc' = "done"
                /\ escaped' = TRUE
                /\ res' \in UnhandledOutcomes
                /\ frame' = NoFrame
                /\ UNCHANGED <<sent, calls>>
    /\ UNCHANGED <<deployment, req, validated, last, session, signedIn>>

Dashboard ==
    \E r \in Answers : Step({"/admin/dashboard"}, dashboard(frame.stage, r), r)

CreateProject ==
    \E r \in Answers :
        Step({"/admin/projects/api"}, createProjectCtl(req, frame.stage, r), r)

UpdateProject ==
    \E r \in Answers :
        Step({"/admin/projects/:id"},
             updateProjectCtl(req, frame.stage, frame.error, r, GO_API_URL), r)

CreateInstance ==
    \E r \in Answers :
        Step({"/admin/projects/:projectId/instances"},
             createInstanceCtl(req, frame.stage, frame.error, r, GO_API_URL), r)

UpdateInstance ==
    \E r \in Answers :
        Step({"/admin/projects/:projectId/instances/:instanceId"},
             updateInstanceCtl(req, frame.stage, r), r)

DeleteTable ==
    \E r \in Answers : Step({"/admin/tables/delete"}, deleteTableCtl(req, frame.stage, r), r)

ServiceCall ==
    \E r \in Answers :
        Step(ServiceFunctions, serviceCall(req, frame.stage, r, svc, GO_API_URL), r)

\* the response is out, or the function has returned: the session stays
CloseAdmin ==
    /\ pc = "done"
    /\ pc' = "idle"
    /\ req' = NoRequest
    /\ res' = NoResponse
    /\ sent' = NoCall
    /\ calls' = 0
    /\ reply' = NoReply
    /\ escaped' = FALSE
    /\ frame' = NoFrame
    /\ log' = <<>>
    /\ UNCHANGED <<deployment, validated, last, session, signedIn>>

NextAdmin ==
    \/ ReceiveAdmin
    \/ AuthMiddleware
    \/ Login
    \/ Logout
    \/ Dashboard
    \/ CreateProject
    \/ UpdateProject
    \/ CreateInstance
    \/ UpdateInstance
    \/ DeleteTable
    \/ ServiceCall
    \/ CloseAdmin

SpecAdmin == Init /\ [][NextAdmin]_vars

-----------------------------------------------------------------------------
(* Properties *)

\* the fields a route requires of the body
RequiredFields(route) ==
    CASE route \in {"/insert", "/batch-insert", "/update"} ->
            {"project_id", "id_instancia", "table", "data"}
      [] route \in {"/get", "/delete"} -> {"project_id", "id_instancia", "table"}
      [] route = "/batch-update" -> {"project_id", "id_instancia", "table", "updates"}
      [] route = "/aggregate" -> {"project_id", "id_instancia", "table", "operation"}

\* a required field is absent from the body, or null
LacksRequired ==
    \E f \in RequiredFields(req.route) :
        \A i \in 1..Len(req.body.o) : req.body.o[i].k = f => req.body.o[i].v = Null

\* the handler of the request has run, and the request is answered or abandoned
Handled == pc = "done" /\ validated

\* C1: a request with a valid key whose body lacks a required field is
\* answered with HTTP 400, and no call to the engine is made for it
C1_MissingFieldIs400 ==
    (Handled /\ LacksRequired) => (res.status = 400 /\ calls = 0)

\* the key is one of the pieces of the text between its commas
IsElement(chars, k) ==
    /\ \A n \in 1..Len(k) : k[n] # ","
    /\ \E i \in 1..(Len(chars) + 1) :
         \E j \in (i - 1)..Len(chars) :
            /\ SubSeq(chars, i, j) = k
            /\ (i = 1 \/ chars[i - 1] = ",")
            /\ (j = Len(chars) \/ chars[j + 1] = ",")

\* the request's key is on the list of API_KEYS
KeyListed ==
    /\ req.key.present
    /\ API_KEYS.set
    /\ Len(API_KEYS.chars) > 0
    /\ IsElement(API_KEYS.chars, req.key.chars)

\* the middleware has run
PastMiddleware == pc \in {"controller", "awaiting", "done"} /\ ~req.malformed

\* C2: a request whose x-api-key is absent or not on the list of API_KEYS is
\* answered 401 with success = false; with API_KEYS empty or unset no key passes
C2_UnlistedKeyIs401 ==
    (PastMiddleware /\ ~KeyListed) =>
        /\ pc = "done"
        /\ res.status = 401
        /\ Get(res.body, "success") = Bool(FALSE)

C2_Witness ==
    /\ pc = "done"
    /\ res.status = 401
    /\ req.key = Header(<<"a", ",", "b">>)
    /\ API_KEYS = Env(<<"a", ",", "b">>)

\* C3: the controller, and so any call to the engine, runs only after the
\* middleware accepted the key: a request answered 401 has had no field
\* validation and no downstream call
C3_ControllerOnlyAfterKey ==
    /\ (pc \in {"controller", "awaiting"} \/ validated \/ calls > 0 \/ sent # NoCall)
            => (KeyListed /\ res.status # 401)
    /\ res.status = 401 => (~validated /\ calls = 0 /\ sent = NoCall /\ reply = NoReply)

C3_Witness ==
    /\ pc = "done"
    /\ res.status = 401
    /\ req.route = "/insert"
    /\ ~LacksRequired
    /\ req.key = Header(<<"c">>)

UnreachableKinds == {"timeout", "refused", "dns"}

\* the call to the engine failed
CallFailed == pc = "done" /\ reply.kind \in UnreachableKinds \cup {"non2xx"}

C5_FixedConnectivityMessage ==
    /\ (pc = "done" /\ reply.kind \in UnreachableKinds) =>
            \A k \in UnreachableKinds :
                Get(res.body, "error") = Str(requestToGo(svc, Unreachable(k), GO_API_URL).message)
    /\ (pc = "done" /\ reply.kind = "non2xx") =>
            \A k \in UnreachableKinds :
                Get(res.body, "error") # Str(requestToGo(svc, Unreachable(k), GO_API_URL).message)

\* the engine's answer reports a failure
ReportsFailure(r) == Get(r.data, "success") = Bool(FALSE)

\* C6: an answer of the engine that reports failure gets a 500 response with
\* success = false that includes the remote detail, never a success = true envelope
C6_RemoteFailureIs500 ==
    (pc = "done" /\ ReportsFailure(reply)) =>
        /\ res.status = 500
        /\ Get(res.body, "success") = Bool(FALSE)
        /\ Get(res.body, "error") # Str("[object Object]")

\* C7: on a connectivity failure the response is the same whatever the base
\* URL of the engine that could not be reached
C7_NoNetworkDetails ==
    (pc = "done" /\ reply.kind \in UnreachableKinds) =>
        \A u \in Urls : res = Completed(ctrl, req.route, requestToGo(svc, reply, u))

\* a call to /data/delete has been made for the request
DeleteSent == sent.endpoint = "/data/delete"

\* C8: /delete forwards mode "hard" when the request has no mode field, and
\* forwards mode "soft" when the request says "soft"
C8_DeleteModeDefault ==
    DeleteSent =>
        /\ ~HasKey(req.body, "mode") => Get(sent.payload, "mode") = Str("hard")
        /\ Get(req.body, "mode") = Str("soft") => Get(sent.payload, "mode") = Str("soft")

C8_Witness ==
    /\ DeleteSent
    /\ ~HasKey(req.body, "mode")
    /\ Get(sent.payload, "mode") = Str("hard")
    /\ pc = "done"
    /\ res.status = 200

\* C9: the mode sent to the engine by /delete is always "hard" or "soft"
C9_DeleteModeHardOrSoft ==
    DeleteSent => Get(sent.payload, "mode") \in {Str("hard"), Str("soft")}

\* the keys of an object other than id_instancia, in order
OtherKeys(row) ==
    SelectSeq([i \in 1..Len(row.o) |-> row.o[i].k], LAMBDA k : k # "id_instancia")

\* a list of {name, value} columns read back as an object
FromColumns(cols) ==
    Obj([i \in 1..Len(cols.a) |-> KV(Get(cols.a[i], "name").s, Get(cols.a[i], "value"))])

\* the rows of a batch-insert payload, as objects
ForwardedRows(payload) ==
    IF HasKey(payload, "data") THEN Get(payload, "data").a
    ELSE [i \in 1..Len(Get(payload, "rows").a) |-> FromColumns(Get(payload, "rows").a[i])]

\* row is forwarded as fwd: its own id_instancia or else the request's, the
\* other fields as they were
RowForwarded(row, fwd, id_instancia) ==
    /\ Get(fwd, "id_instancia") =
            (IF Nullish(Get(row, "id_instancia")) THEN id_instancia
             ELSE Get(row, "id_instancia"))
    /\ OtherKeys(fwd) = OtherKeys(row)
    /\ \A i \in 1..Len(row.o) :
            row.o[i].k # "id_instancia" => Get(fwd, row.o[i].k) = row.o[i].v

\* C10: batchInsert forwards each input row with its own id_instancia, or the
\* request's when the row has none, the other fields unchanged, the rows in
\* the same order and number
C10_BatchInsertFillsInstance ==
    sent.endpoint = "/data/batch-insert" =>
        LET rows == Get(req.body, "data").a
            fwd == ForwardedRows(sent.payload)
        IN  /\ Len(fwd) = Len(rows)
            /\ \A i \in 1..Len(rows) :
                    RowForwarded(rows[i], fwd[i], Get(req.body, "id_instancia"))

\* the value is null on the wire, or the empty string
Empty(v) == Nullish(v) \/ v = NaN \/ v = Str("")

\* C11: every payload sent to the engine carries a project_id, an id_instancia
\* and a table that are neither null nor empty, whatever the request was
C11_PayloadIdentifiesTable ==
    sent # NoCall =>
        /\ ~Empty(Get(sent.payload, "project_id"))
        /\ ~Empty(Get(sent.payload, "id_instancia"))
        /\ ~Empty(Get(sent.payload, "table"))

\* the fields of the record a /data/insert payload carries
InsertedFields(payload) ==
    IF HasKey(payload, "data") THEN Entries(Get(payload, "data"))
    ELSE Get(payload, "columns").a

\* C12: no /data/insert call carries an empty data object, and no
\* /data/batch-insert call carries an empty list of records
C12_NoEmptyInsert ==
    /\ sent.endpoint = "/data/insert" => Len(InsertedFields(sent.payload)) > 0
    /\ sent.endpoint = "/data/batch-insert" => Len(ForwardedRows(sent.payload)) > 0

\* the request has all its required fields, data being this value
CompleteWith(route, data) ==
    /\ req.route = route
    /\ ~req.malformed
    /\ Truthy(Get(req.body, "project_id"))
    /\ Truthy(Get(req.body, "id_instancia"))
    /\ Truthy(Get(req.body, "table"))
    /\ Get(req.body, "data") = data

C12_Witness ==
    /\ Handled
    /\ \/ CompleteWith("/insert", Obj(<<>>))
       \/ CompleteWith("/batch-insert", Arr(<<>>))
    /\ calls = 0
    /\ sent = NoCall

\* C13: /insert with data = {} and /batch-insert with data = [], the other
\* required fields present, are answered with HTTP 400 and not with HTTP 500
C13_EmptyDataIs400 ==
    (Handled /\ (CompleteWith("/insert", Obj(<<>>)) \/ CompleteWith("/batch-insert", Arr(<<>>))))
        => res.status = 400

\* the body has what the route's controller and service ask of it
PassesValidation ==
    /\ ~req.malformed
    /\ Truthy(Get(req.body, "project_id"))
    /\ Truthy(Get(req.body, "id_instancia"))
    /\ Truthy(Get(req.body, "table"))
    /\ req.route = "/insert" =>
            Truthy(Get(req.body, "data")) /\ KeyCount(Get(req.body, "data")) > 0
    /\ req.route = "/batch-insert" =>
            IsArray(Get(req.body, "data")) /\ Len(Get(req.body, "data").a) > 0
    /\ req.route = "/update" => Truthy(Get(req.body, "data"))
    /\ req.route = "/batch-update" => IsArray(Get(req.body, "updates"))
    /\ req.route = "/aggregate" => Truthy(Get(req.body, "operation"))

\* the middleware accepts the request's key: a listed key that is not empty
KeyAccepted == KeyListed /\ req.key.chars # <<>>

\* C14: a request with an accepted key that passes validation causes exactly
\* one call to the engine, a call that failed or timed out is not made again,
\* and no request causes more than one call
C14_OneCallPerRequest ==
    /\ calls <= 1
    /\ (KeyAccepted /\ PassesValidation /\ pc \in {"awaiting", "done"}) => calls = 1
    /\ (pc = "done" /\ reply # NoReply) => calls = 1

C14_Witness ==
    /\ pc = "done"
    /\ KeyAccepted
    /\ PassesValidation
    /\ reply.kind = "timeout"
    /\ calls = 1
    /\ res.status = 500

\* the operators of the aggregate operation
AggregateOperators == {"COUNT", "SUM", "AVG", "MIN", "MAX", "EXISTS"}

\* C15: /aggregate is forwarded only when its operation is one of COUNT, SUM,
\* AVG, MIN, MAX, EXISTS; with another operation no call is made
C15_AggregateOperatorListed ==
    /\ sent.endpoint = "/data/aggregate" =>
            Get(sent.payload, "operation") \in {Str(o) : o \in AggregateOperators}
    /\ (req.route = "/aggregate" /\ Handled
            /\ Get(req.body, "operation") \notin {Str(o) : o \in AggregateOperators})
            => calls = 0

\* an /aggregate request with an accepted key, the required fields and no column
AggregateWithoutColumn ==
    /\ req.route = "/aggregate"
    /\ KeyAccepted
    /\ PassesValidation
    /\ ~HasKey(req.body, "column")

C17_ResponseEnvelope ==
    pc = "done" =>
        /\ res.status \in {200, 400, 401, 500}
        /\ res.body.t = "object"
        /\ Get(res.body, "success").t = "boolean"
        /\ Get(res.body, "message").t = "string"
        /\ (Get(res.body, "success") = Bool(TRUE)) <=> (res.status = 200)

\* what the handler of a route does with a body, in a deployment
HandlerOf(c, s, route, body) ==
    CASE route = "/insert" -> IF c = "try" THEN insertRecord(body, s) ELSE insertRecordV(body, s)
      [] route = "/batch-insert" ->
            IF c = "try" THEN batchInsertCtl(body, s) ELSE batchInsertV(body, s)
      [] route = "/get" ->
            IF c = "try" THEN advancedSelectCtl(body, s) ELSE advancedSelectV(body, s)
      [] route = "/update" -> IF c = "try" THEN updateRecord(body, s) ELSE updateRecordV(body, s)
      [] route = "/batch-update" ->
            IF c = "try" THEN batchUpdateCtl(body, s) ELSE batchUpdateV(body, s)
      [] route = "/delete" -> IF c = "try" THEN deleteRecord(body, s) ELSE deleteRecordV(body, s)
      [] route = "/aggregate" -> IF c = "try" THEN aggregateCtl(body, s) ELSE aggregateV(body, s)

\* the required fields of a route that are absent from the body or null
MissingOf(route, body) ==
    {f \in RequiredFields(route) : ~HasKey(body, f) \/ Nullish(Get(body, f))}

\* C18: a request lacking required fields is rejected with 400 before any
\* payload is built, and the rejection names exactly the fields that are
\* missing: a request with another set of missing fields gets another message
C18_RejectionNamesMissing ==
    (Handled /\ LacksRequired) =>
        /\ res.status = 400
        /\ calls = 0
        /\ \A b \in Bodies(req.route) :
                (MissingOf(req.route, b) # {}
                    /\ MissingOf(req.route, b) # MissingOf(req.route, req.body))
                => Get(HandlerOf(ctrl, svc, req.route, b).res.body, "message")
                        # Get(res.body, "message")

\* the engine's answer carries a list of records: the answer is the list, or
\* an object whose data is the list
CarriesRecords(data) == IsArray(data) \/ IsArray(Get(data, "data"))

\* the list of records of such an answer
RecordsOf(data) == IF IsArray(data) THEN data.a ELSE Get(data, "data").a

\* C19: in a successful /get response count is the number of records the
\* engine returned, in whichever of the two shapes it returned the list
C19_CountIsRecordCount ==
    (pc = "done" /\ req.route = "/get" /\ res.status = 200 /\ CarriesRecords(reply.data)) =>
        Get(res.body, "count") = Num(Len(RecordsOf(reply.data)))

\* the request is the one answered before it, and the engine answers it as
\* it did then
SameAsLast == pc = "done" /\ reply # NoReply /\ last.req = req /\ last.reply = reply

SelectOptions ==
    {[k |-> "alias", t |-> "string", d |-> Str("")],
     [k |-> "select", t |-> "array", d |-> Arr(<<>>)],
     [k |-> "joins", t |-> "array", d |-> Arr(<<>>)],
     [k |-> "where", t |-> "object", d |-> Obj(<<>>)],
     [k |-> "where_raw", t |-> "string", d |-> Str("")],
     [k |-> "group_by", t |-> "string", d |-> Str("")],
     [k |-> "having", t |-> "string", d |-> Str("")],
     [k |-> "order_by", t |-> "string", d |-> Str("")],
     [k |-> "limit", t |-> "number", d |-> Num(0)],
     [k |-> "offset", t |-> "number", d |-> Num(0)]}

\* C21: the /data/select payload has all ten optional fields; a field the
\* caller omitted, gave as null or gave with the wrong type goes as its
\* default, a well-typed value goes unchanged
C21_SelectDefaults ==
    sent.endpoint = "/data/select" =>
        \A f \in SelectOptions :
            /\ HasKey(sent.payload, f.k)
            /\ Get(sent.payload, f.k) =
                    (IF Get(req.body, f.k).t = f.t THEN Get(req.body, f.k) ELSE f.d)

\* C23: /data/update carries where = {} when the request had no where, and
\* every element of the updates list of /data/batch-update has a where map,
\* {} when the request's element had none
C23_UpdateWhereDefault ==
    /\ sent.endpoint = "/data/update" =>
            (~HasKey(req.body, "where") => Get(sent.payload, "where") = Obj(<<>>))
    /\ sent.endpoint = "/data/batch-update" =>
            LET given == Get(req.body, "updates").a
                fwd == Get(sent.payload, "updates").a
            IN  /\ Len(fwd) = Len(given)
                /\ \A i \in 1..Len(fwd) :
                        /\ Get(fwd[i], "where").t = "object"
                        /\ ~HasKey(given[i], "where") => Get(fwd[i], "where") = Obj(<<>>)

\* a /delete request with an accepted key and the required fields, with no
\* where and no where_raw
DeleteWithoutFilter ==
    /\ req.route = "/delete"
    /\ KeyAccepted
    /\ PassesValidation
    /\ ~HasKey(req.body, "where")
    /\ ~HasKey(req.body, "where_raw")

\* C30: a /delete request without where and where_raw is not rejected: it is
\* forwarded with where = {} and where_raw = null, and with mode "hard" when
\* it has no mode either
C30_DeleteWithoutFilterForwarded ==
    (DeleteWithoutFilter /\ pc \in {"awaiting", "done"}) =>
        /\ sent.endpoint = "/data/delete"
        /\ calls = 1
        /\ Get(sent.payload, "where") = Obj(<<>>)
        /\ HasKey(sent.payload, "where_raw")
        /\ Get(sent.payload, "where_raw") = Null
        /\ ~HasKey(req.body, "mode") => Get(sent.payload, "mode") = Str("hard")
        /\ (pc = "done" /\ reply.kind = "2xx") => res.status = 200

C30_Witness ==
    /\ DeleteWithoutFilter
    /\ ~HasKey(req.body, "mode")
    /\ pc = "done"
    /\ res.status = 200
    /\ Get(sent.payload, "where") = Obj(<<>>)
    /\ Get(sent.payload, "mode") = Str("hard")

\* cols is the list of columns of the object data: one {name, value} entry
\* for each key, in the order of the keys
ColumnsOf(cols, data) ==
    /\ IsArray(cols)
    /\ Len(cols.a) = Len(data.o)
    /\ \A i \in 1..Len(cols.a) :
            cols.a[i] = Obj(<<KV("name", Str(data.o[i].k)), KV("value", data.o[i].v)>>)
    /\ FromColumns(cols) = data

\* C25: in the columns version, insert forwards one {name, value} entry for
\* each key of data, in the order of the keys, and batchInsert does so for
\* each row, the rows in order
C25_ColumnsKeepData ==
    svc = "columns" =>
        /\ sent.endpoint = "/data/insert" =>
                /\ ~HasKey(sent.payload, "data")
                /\ ColumnsOf(Get(sent.payload, "columns"), Get(req.body, "data"))
        /\ sent.endpoint = "/data/batch-insert" =>
                LET rows == Get(sent.payload, "rows")
                    data == Get(req.body, "data")
                IN  /\ IsArray(rows)
                    /\ Len(rows.a) = Len(data.a)
                    /\ \A i \in 1..Len(rows.a) : ColumnsOf(rows.a[i], data.a[i])

C25_Witness ==
    /\ svc = "columns"
    /\ sent.endpoint = "/data/insert"
    /\ Len(Get(sent.payload, "columns").a) = 2
    /\ Get(Get(sent.payload, "columns").a[2], "name") = Str("idade")

\* the optional fields of joinSelect the claim names
JoinOptions == {"joins", "where_raw", "group_by", "having", "order_by", "limit", "offset"}

\* C22: a field of joinSelect's options that the caller omitted or gave as
\* null goes to /data/join-select as an empty list, an empty string or zero
C22_JoinSelectDefaults ==
    sent.endpoint = "/data/join-select" =>
        \A k \in JoinOptions :
            Nullish(Get(req.body, k)) =>
                Get(sent.payload, k) \in {Arr(<<>>), Str(""), Num(0)}

\* the function the other module called has returned this array
ReturnedArray == HasKey(res.body, "returned") /\ IsArray(Get(res.body, "returned"))

\* C24: listProjects, listInstances, listTables and callGoEngine return an
\* array whatever the shape of the engine's answer, and callGoEngine returns
\* [] when its call fails
C24_ListsReturnArrays ==
    (pc = "done" /\ req.route \in {"listProjects", "listInstances", "listTables",
                                   "callGoEngine"}) =>
        /\ reply.kind = "2xx" => ReturnedArray
        /\ (req.route = "callGoEngine" /\ reply.kind # "2xx") =>
                (ReturnedArray /\ Get(res.body, "returned") = Arr(<<>>))

\* the update a request or call is about: the id, the list the service
\* reads first and the PUT it ends with
UpdateRoutes ==
    {"updateProject", "updateInstance", "/admin/projects/:id",
     "/admin/projects/:projectId/instances/:instanceId"}

UpdateOfProject == req.route \in {"updateProject", "/admin/projects/:id"}

UpdateId ==
    IF req.route = "/admin/projects/:projectId/instances/:instanceId"
    THEN Get(req.params, "instanceId") ELSE Get(req.params, "id")

UpdateList == IF UpdateOfProject THEN "GET /projects" ELSE "GET /instances"

UpdatePut ==
    (IF UpdateOfProject THEN "PUT /projects/" ELSE "PUT /instances/") \o ToStr(UpdateId)

\* the engine's answer r to the list call holds the id
ListHolds(r) ==
    LET listed == IF UpdateOfProject THEN listProjects(r) ELSE listInstances(r)
    IN  ~listed.threw /\ IsArray(listed.data) /\ Truthy(Find(listed.data, UpdateId))

\* the i-th call made for the request: those answered, then the pending one
CallAt(i) == IF i <= Len(log) THEN log[i].call ELSE sent

\* C29: a PUT of updateProject or updateInstance comes only after the list
\* call returned an entry with the id; a list without it ends the service
\* call with an error and no PUT; updateInstance without project_id fails
\* before any call
C29_PutOnlyAfterListed ==
    req.route \in UpdateRoutes =>
        /\ \A i \in 1..calls :
              CallAt(i).endpoint = UpdatePut =>
                  /\ i > 1
                  /\ log[i - 1].call.endpoint = UpdateList
                  /\ ListHolds(log[i - 1].reply)
        /\ (req.route \in {"updateProject", "updateInstance"} /\ pc = "done"
              /\ Len(log) > 0 /\ ~ListHolds(log[1].reply)) =>
                  /\ HasKey(res.body, "threw")
                  /\ calls = 1
        /\ (req.route = "updateInstance" /\ ~Truthy(Get(req.body, "project_id"))) =>
                  /\ calls = 0
                  /\ pc = "done" => HasKey(res.body, "threw")

C29_Witness ==
    /\ req.route = "updateInstance"
    /\ pc = "done"
    /\ Len(log) = 2
    /\ log[2].call.endpoint = "PUT /instances/1"
    /\ HasKey(res.body, "returned")

\* C26: the session's flag is set exactly when a login with the configured
\* password was accepted and no logout has run since; the dashboard handler
\* runs only then, and GET /admin/dashboard is redirected to /admin/login
\* otherwise
C26_SessionGate ==
    /\ Truthy(session) <=> signedIn
    /\ req.route = "/admin/dashboard" =>
          /\ pc \in {"controller", "awaiting"} => signedIn
          /\ pc = "done" =>
                IF signedIn THEN Get(res.body, "render") = Str("admin/dashboard")
                ELSE res = Redirect("/admin/login")

C26_Witness ==
    /\ req.route = "/admin/dashboard"
    /\ pc = "done"
    /\ signedIn
    /\ Get(res.body, "render") = Str("admin/dashboard")

\* the routes mounted under /admin/projects and /admin/tables
ProjectRoutes ==
    {"/admin/projects/api", "/admin/projects/:id", "/admin/projects/:projectId/instances",
     "/admin/projects/:projectId/instances/:instanceId"}

TableRoutes == {"/admin/tables/delete"}

\* C27: a request to a route under /admin/projects or /admin/tables goes
\* to its handler whatever the session's flag is, and is never answered by
\* authMiddleware; only /admin/dashboard and /admin/logout are redirected
\* to /admin/login when the flag is not set
C27_OnlyDashboardGuarded ==
    /\ req.route \in ProjectRoutes \cup TableRoutes =>
          /\ pc \in {"controller", "awaiting", "done"}
          /\ res # Redirect("/admin/login")
    /\ (req.route \in {"/admin/dashboard", "/admin/logout"} /\ ~Truthy(session)) =>
          /\ pc \in {"middleware", "done"}
          /\ pc = "done" => res = Redirect("/admin/login")

C27_Witness ==
    /\ session = Undef
    /\ req.route = "/admin/tables/delete"
    /\ pc = "awaiting"
    /\ sent.endpoint = "DELETE /schema/table"

\* C28: the handler of a request to a projects route ends with a response
\* sent, whatever the engine answered to its calls
C28_HandlersRespond ==
    (req.route \in ProjectRoutes /\ pc = "done") => res # NoResponse

====
